---- MODULE Spec2Model ----
(***************************************************************************)
(* A model of the population-level stages of the RNA-editing pipeline:     *)
(*   - Phase 5, collate_and_select_phase5.py ("v1") and                    *)
(*     collate_and_select_phase5_v2.py ("v2"): Population Collator and     *)
(*     Representative-Site Selector;                                       *)
(*   - Phase 6, normalize_and_covariate_phase6.py ("v1") and               *)
(*     normalize_and_covariate_phase6_v2.py ("v2"): inverse normal         *)
(*     transform, with the rank normalizers of run_phase6_normalization.py *)
(*     ("norm") and run_phase3_individual_processing_v4.py ("rint");       *)
(*   - Phase 8, qvalue_filter_phase8.py ("qf") and                         *)
(*     process_fastqtl_results_p8.py ("pf"): FDR Corrector;                *)
(*   - the Covariate Merger of normalize_and_covariate_phase6.py ("v1"),   *)
(*     normalize_and_covariate_phase6_v2.py ("v2") and                     *)
(*     prepare_aeiqtl_matrices.py ("aeiqtl").                              *)
(* Editing ratios are integers 0..MaxER (units of 1/MaxER); a missing      *)
(* value (pandas NaN, the token NA in a file) is NA.  Medians are kept     *)
(* doubled (Median2) and ranks doubled (Rank2) so that the halves that     *)
(* averaging produces stay integers.                                       *)
(***************************************************************************)
EXTENDS Integers, Sequences, FiniteSets, TLC

VARIABLES
    \* ---- Phase 5 (collate_and_select_phase5*.py) ----
    script,                      \* which of the two Phase-5 scripts runs
    min_samples,                 \* args.min_samples (v2 only)
    union_sorts,                 \* the installed pandas sorts an index union
    input_dir,                   \* the files of args.input_dir: name -> file
    input_files,                 \* glob.glob's result, in its order
    i,                           \* the collation loop's position (1-based)
    all_data,                    \* the long frames of the files loaded so far
    population_matrix_raw,       \* <<>> until pd.concat ran, then <<matrix>>
    population_matrix_filtered,  \* <<>> until the sample-size filter ran
    output_file,                 \* <<>> until to_csv ran, then <<matrix>>
    stderr,                      \* the messages printed to sys.stderr
    exit_code,                   \* the process exit code once pc5 = "done"
    pc5,
    \* ---- Phase 6 (inverse_normal_transform) ----
    int_script,                  \* which inverse_normal_transform runs
    nan_propagates,              \* the installed scipy's rankdata propagates NaN
    data,                        \* the input sequence (one feature)
    ranked_data,                 \* doubled ranks, by input position
    normalized_ranks,            \* percentiles <<numerator, denominator>>
    transformed,                 \* the returned sequence
    pc6,
    \* ---- Phase 8 (FDR correction) ----
    fdr_script,                  \* which of the two Phase-8 scripts runs
    fdr_threshold,               \* the significance threshold, a fraction
    fdr_files,                   \* the input files, in command-line order
    fdr_i,                       \* the loading loop's position (1-based)
    all_pvalues,                 \* the rows of the files loaded so far
    df_combined,                 \* <<>> until the correction ran, then <<rows>>
    lead_table,                  \* <<>> until written, then <<rows>>
    full_table,                  \* <<>> until written, then <<rows>>
    fdr_stderr,                  \* the messages printed to sys.stderr
    fdr_exit,                    \* the process exit code once pc8 = "done"
    pc8,
    \* ---- Covariate Merger ----
    cov_script,                  \* which of the three mergers runs
    individual_ids,              \* the individuals of the phenotype matrix
    cov_files,                   \* the covariate files: source -> file
    cov_k,                       \* the next source to load (1-based)
    covariates,                  \* the frames loaded so far
    covariate_matrix,            \* <<>> until merged, then <<frame>>
    cov_output,                  \* <<>> until written, then <<frame>>
    covariate_file,              \* the layout of the written covariate file
    phenotype_file,              \* the layout of the written phenotype file
    cov_stderr,                  \* warnings and errors printed
    cov_exit,                    \* the process exit code once pcC = "done"
    pcC,
    \* ---- Phase 3: consensus of the raw calls ----
    p3_script,                   \* which aggregator or master discovery runs
    raw_files,                   \* the raw call files the glob finds, in order
    p3_f,                        \* the next file to load (1-based)
    raw_df_list,                 \* the frames loaded so far
    raw_df,                      \* the concatenated calls
    p3_output,                   \* <<>> until written, then <<table>>
    p3_stderr,                   \* warnings and errors printed
    p3_exit,                     \* the process exit code once pc3 = "done"
    pc3,
    \* ---- Annotator: functional region and gene of one site ----
    annot_script,                \* which aggregator's annotator runs
    gtf_lines,                   \* the lines of the annotation source, in file order
    gtf_readable,                \* whether the annotation source can be read
    site_pos,                    \* the position of the site to annotate
    gtf_df,                      \* <<>> until loaded, then <<the feature map>>
    annotation,                  \* <<>> until annotated, then <<[Functional_Region, Gene]>>
    annot_exit,                  \* the process exit code once pcA = "done"
    pcA,
    \* ---- Phase 4: per-cell-type quantification ----
    p4_script,                   \* which quantifier runs
    phase3_df,                   \* the sites handed to the quantifier, in order
    germline_vcf,                \* the individual's germline VCF
    gtf_annotation,              \* the GTF the splice junctions come from
    pileups,                     \* SiteID -> what the BAM piles up at the site
    site_annotation,             \* SiteID -> the global QC annotation
    p4_k,                        \* the next site of the running loop (1-based)
    matrix_rows,                 \* the rows built so far
    p4_output,                   \* <<>> until written, then <<rows>>
    p4_stderr,                   \* warnings and errors printed
    p4_exit,                     \* the process exit code once pc4 = "done"
    pc4,
    \* ---- Kill and resubmit: a stage writing its output files ----
    rt_stage,                    \* the stage that runs
    rt_table,                    \* the rows the stage computes from its inputs
    rt_files,                    \* file name -> the lines the file holds
    rt_step,                     \* the output file being written (1-based)
    rt_pos,                      \* the next line of that file to write
    rt_aborts,                   \* how many runs were killed so far
    rt_partial,                  \* whether a killed run left a partial file
    pcR

vars5 == <<script, min_samples, union_sorts, input_dir, input_files, i, all_data,
           population_matrix_raw, population_matrix_filtered, output_file,
           stderr, exit_code, pc5>>
vars6 == <<int_script, nan_propagates, data, ranked_data, normalized_ranks,
           transformed, pc6>>
vars8 == <<fdr_script, fdr_threshold, fdr_files, fdr_i, all_pvalues, df_combined,
           lead_table, full_table, fdr_stderr, fdr_exit, pc8>>
varsC == <<cov_script, individual_ids, cov_files, cov_k, covariates,
           covariate_matrix, cov_output, covariate_file, phenotype_file,
           cov_stderr, cov_exit, pcC>>
vars3 == <<p3_script, raw_files, p3_f, raw_df_list, raw_df, p3_output,
           p3_stderr, p3_exit, pc3>>
varsA == <<annot_script, gtf_lines, gtf_readable, site_pos, gtf_df, annotation,
           annot_exit, pcA>>
vars4 == <<p4_script, phase3_df, germline_vcf, gtf_annotation, pileups,
           site_annotation, p4_k, matrix_rows, p4_output, p4_stderr, p4_exit, pc4>>
varsR == <<rt_stage, rt_table, rt_files, rt_step, rt_pos, rt_aborts, rt_partial, pcR>>
varsLate == <<vars3, varsA, vars4, varsR>>
others3 == <<vars5, vars6, vars8, varsC, varsA, vars4, varsR>>
othersA == <<vars5, vars6, vars8, varsC, vars3, vars4, varsR>>
others4 == <<vars5, vars6, vars8, varsC, vars3, varsA, varsR>>
othersR == <<vars5, vars6, vars8, varsC, vars3, varsA, vars4>>
vars == <<vars5, vars6, vars8, varsC, varsLate>>

---------------------------------------------------------------------------
(* Bounds of the model *)

\* Editing ratios range over 0..MaxER.
MaxER == 1
\* --min_samples ranges over 0..MaxMinSamples.
MaxMinSamples == 2
\* Phase 6: feature sequences have 1..MaxLen entries, values 1..MaxVal.
MaxLen == 3
MaxVal == 3

\* pandas NaN / the NA token of the files.
NA == -1

---------------------------------------------------------------------------
(* Sequences and strings *)

Range(s) == {s[k] : k \in DOMAIN s}

\* All orderings of a finite set, as sequences without repetition.
Orderings(S) ==
    {s \in [1..Cardinality(S) -> S] : \A a, b \in DOMAIN s : a # b => s[a] # s[b]}

\* Python's s.replace(old, ""): every non-overlapping occurrence of old
\* removed, scanning left to right.
RECURSIVE StrRemove(_, _)
StrRemove(s, old) ==
    IF Len(s) < Len(old) THEN s
    ELSE IF SubSeq(s, 1, Len(old)) = old
         THEN StrRemove(SubSeq(s, Len(old) + 1, Len(s)), old)
         ELSE SubSeq(s, 1, 1) \o StrRemove(SubSeq(s, 2, Len(s)), old)

\* Python's s.endswith(suffix).
EndsWith(s, suffix) ==
    /\ Len(s) >= Len(suffix)
    /\ SubSeq(s, Len(s) - Len(suffix) + 1, Len(s)) = suffix

\* Python's s.startswith(prefix).
StartsWith(s, prefix) ==
    /\ Len(s) >= Len(prefix)
    /\ SubSeq(s, 1, Len(prefix)) = prefix

---------------------------------------------------------------------------
(* The input universe of Phase 5 *)

\* args.file_pattern (the modelled run passes this pattern).
file_pattern == "*_p4.tsv"

\* The individuals whose Phase-4 matrices may lie in the input directory.
Individuals == {"I1", "I2"}

FileNameOf(iid) == iid \o StrRemove(file_pattern, "*")

\* The sites, genes and cell types of the modelled cohort, each in Python's
\* string order (code point order), which pandas uses when it sorts. Phase 4
\* names a cell type by the last "_"-separated token of its BAM file's name,
\* so a cell type holds no underscore; a gene symbol may.
SiteIDs == <<"1:1000:A>G", "1:2000:T>C">>
Genes == <<"APP", "APP__B">>
CellTypes == <<"Bcell", "Tcell">>

\* GlobalFilterStatus values written by Phase 4.
PASS == "PASS"
GermlineSNP == "GermlineSNP"

PosIn(seq, x) == CHOOSE k \in DOMAIN seq : seq[k] = x

\* key1 < key2 for keys <<SiteID, Gene, CellType>>, as tuples of strings.
KeyLess(k1, k2) ==
    LET a == <<PosIn(SiteIDs, k1[1]), PosIn(Genes, k1[2]), PosIn(CellTypes, k1[3])>>
        b == <<PosIn(SiteIDs, k2[1]), PosIn(Genes, k2[2]), PosIn(CellTypes, k2[3])>>
    IN  \/ a[1] < b[1]
        \/ a[1] = b[1] /\ a[2] < b[2]
        \/ a[1] = b[1] /\ a[2] = b[2] /\ a[3] < b[3]

\* <<Gene, CellType>> group keys in sorted order.
GroupLess(g1, g2) ==
    \/ PosIn(Genes, g1[1]) < PosIn(Genes, g2[1])
    \/ g1[1] = g2[1] /\ PosIn(CellTypes, g1[2]) < PosIn(CellTypes, g2[2])

\* What one file says about one site: no row, a row that failed the global
\* filter, or a PASS row with a masked (NA) or observed editing ratio.
RowOpts ==
    {<<"absent", NA>>, <<GermlineSNP, MaxER>>, <<PASS, NA>>}
        \cup {<<PASS, v>> : v \in 0..MaxER}

\* A Phase-4 matrix: header columns and rows in SiteID order. Each file has
\* the columns <ct>_ER and <ct>_TR of one cell type.
Phase4Row(site, status, gene, ct, er) ==
    [SiteID |-> site, GlobalFilterStatus |-> status, Phase3_Gene |-> gene,
     cells |-> (ct \o "_ER" :> er) @@ (ct \o "_TR" :> 10)]

Phase4File(opt, gene2, ct) ==
    LET all == [k \in DOMAIN SiteIDs |->
                   Phase4Row(SiteIDs[k], opt[k][1],
                             IF k = 1 THEN Genes[1] ELSE gene2, ct, opt[k][2])]
    IN  [readable |-> TRUE,
         header |-> <<"SiteID", "GlobalFilterStatus", "Phase3_Gene",
                      ct \o "_ER", ct \o "_TR">>,
         rows |-> SelectSeq(all, LAMBDA r : r.GlobalFilterStatus # "absent")]

\* Files that cannot be collated: unreadable, or without the gene column.
UnreadableFile == [readable |-> FALSE, header |-> <<>>, rows |-> <<>>]
NoGeneFile ==
    [readable |-> TRUE,
     header |-> <<"SiteID", "GlobalFilterStatus", CellTypes[1] \o "_ER">>,
     rows |-> <<[SiteID |-> SiteIDs[1], GlobalFilterStatus |-> PASS,
                 Phase3_Gene |-> Genes[1],
                 cells |-> (CellTypes[1] \o "_ER" :> MaxER)]>>]

FileContents(gene2, ct) ==
    {Phase4File(opt, gene2, ct) : opt \in [DOMAIN SiteIDs -> RowOpts]}
        \cup {UnreadableFile, NoGeneFile}

\* The directories of the model: any subset of the individuals has a file;
\* the second site lies in gene2, the first individual's file is of cell
\* type ct1 and every other file of the first cell type.
Directories(gene2, ct1) ==
    UNION {
        {d \in [{FileNameOf(x) : x \in S} ->
                    FileContents(gene2, ct1) \cup FileContents(gene2, CellTypes[1])] :
            \A x \in S :
                d[FileNameOf(x)] \in
                    FileContents(gene2, IF x = "I1" THEN ct1 ELSE CellTypes[1])}
        : S \in SUBSET Individuals}

---------------------------------------------------------------------------
(* Phase 5, step 1: one file's wide table to its long frame *)

\* individual_id: the file's base name with the pattern's literal part removed.
IndividualId(file_name) == StrRemove(file_name, StrRemove(file_pattern, "*"))

\* Mutant of PassRows: the status filter left out.
PassRows_NoFilter(rows) == rows

\* df[df['GlobalFilterStatus'] == 'PASS']
PassRows(rows) == SelectSeq(rows, LAMBDA r : r.GlobalFilterStatus = PASS)

\* er_cols: the header's columns ending in _ER, in header order.
ErCols(header) == SelectSeq(header, LAMBDA c : EndsWith(c, "_ER"))

\* The statements of the try block raise when the file cannot be parsed with
\* a SiteID index, or lacks a column the block selects by name.
LoadRaises(f) ==
    \/ ~f.readable
    \/ "SiteID" \notin Range(f.header)
    \/ "GlobalFilterStatus" \notin Range(f.header)
    \/ "Phase3_Gene" \notin Range(f.header)

\* melt: for each _ER column in turn, one long row per wide row; the cell
\* type is the column name with every "_ER" removed; the index is
\* (SiteID, Phase3_Gene, CellType).
RECURSIVE Melt(_, _)
Melt(rows, er_cols) ==
    IF er_cols = <<>> THEN <<>>
    ELSE LET col == Head(er_cols)
         IN  [k \in DOMAIN rows |->
                 [key |-> <<rows[k].SiteID, rows[k].Phase3_Gene, StrRemove(col, "_ER")>>,
                  val |-> rows[k].cells[col]]]
             \o Melt(rows, Tail(er_cols))

\* df_long[[individual_id]]: a one-column frame indexed by the key.
LongFrame(file_name, f) ==
    [id |-> IndividualId(file_name),
     rows |-> Melt(PassRows(f.rows), ErCols(f.header))]

---------------------------------------------------------------------------
(* Phase 5, step 1b: pd.concat(all_data, axis=1) *)

FrameKeys(fr) == [k \in DOMAIN fr.rows |-> fr.rows[k].key]

\* The value a frame holds for a key, NA when the frame lacks the key.
FrameValue(fr, key) ==
    IF \E k \in DOMAIN fr.rows : fr.rows[k].key = key
    THEN fr.rows[CHOOSE k \in DOMAIN fr.rows : fr.rows[k].key = key].val
    ELSE NA

\* Index.union(other, sort=False): self, then other's new keys in order.
AppendNew(idx, other) ==
    idx \o SelectSeq(other, LAMBDA key : key \notin Range(idx))

RECURSIVE UnionInOrder(_)
UnionInOrder(frames) ==
    IF frames = <<>> THEN <<>>
    ELSE AppendNew(UnionInOrder(SubSeq(frames, 1, Len(frames) - 1)),
                   FrameKeys(frames[Len(frames)]))

\* A set of keys as the sequence sorted by KeyLess.
RECURSIVE SortKeys(_)
SortKeys(S) ==
    IF S = {} THEN <<>>
    ELSE LET m == CHOOSE x \in S : \A y \in S \ {x} : KeyLess(x, y)
         IN  <<m>> \o SortKeys(S \ {m})

\* Mutant of CombinedIndex: concat with join='inner' (keys of every frame).
CombinedIndex_Inner(frames, sorts) ==
    SelectSeq(FrameKeys(frames[1]),
              LAMBDA key : \A k \in DOMAIN frames : key \in Range(FrameKeys(frames[k])))

\* The row index of the concatenation: the common index when all frames
\* have the same one; otherwise the union of the indexes, which pandas
\* releases up to 1.4 return sorted and later releases return in order of
\* first appearance (union_sorts tells which pandas runs).
CombinedIndex(frames, sorts) ==
    IF \A k \in DOMAIN frames : FrameKeys(frames[k]) = FrameKeys(frames[1])
    THEN FrameKeys(frames[1])
    ELSE IF sorts
         THEN SortKeys(UNION {Range(FrameKeys(frames[k])) : k \in DOMAIN frames})
         ELSE UnionInOrder(frames)

\* The population matrix: one column per frame in list order, one row per
\* key of the combined index, NA where a frame lacks the key.
ConcatAxis1(frames, sorts) ==
    LET idx == CombinedIndex(frames, sorts)
    IN  [columns |-> [k \in DOMAIN frames |-> frames[k].id],
         rows |-> [r \in DOMAIN idx |->
                      [key |-> idx[r],
                       vals |-> [k \in DOMAIN frames |-> FrameValue(frames[k], idx[r])]]]]

---------------------------------------------------------------------------
(* Phase 5, steps 2 and 3: sample-size filter and selection *)

\* notna().sum(axis=1) of one row.
SampleCount(vals) == Cardinality({k \in DOMAIN vals : vals[k] # NA})

\* Mutant of SampleSizeFilter: > in place of >=.
SampleSizeFilter_Strict(m, n) ==
    [m EXCEPT !.rows = SelectSeq(m.rows, LAMBDA r : SampleCount(r.vals) > n)]

\* population_matrix_raw[sample_counts >= MIN_SAMPLES]
SampleSizeFilter(m, n) ==
    [m EXCEPT !.rows = SelectSeq(m.rows, LAMBDA r : SampleCount(r.vals) >= n)]

\* Twice the median of the non-missing values of a row (the mean of the two
\* middle values when their number is even); NA when all are missing.
Median2(vals) ==
    LET s == SortSeq(SelectSeq(vals, LAMBDA v : v # NA), LAMBDA a, b : a < b)
        n == Len(s)
    IN  IF n = 0 THEN NA
        ELSE IF n % 2 = 1 THEN 2 * s[(n + 1) \div 2]
        ELSE s[n \div 2] + s[n \div 2 + 1]

GroupOf(key) == <<key[2], key[3]>>

\* groupby(['Phase3_Gene', 'CellType']): the group keys present, sorted.
RECURSIVE SortGroups(_)
SortGroups(S) ==
    IF S = {} THEN <<>>
    ELSE LET m == CHOOSE x \in S : \A y \in S \ {x} : GroupLess(x, y)
         IN  <<m>> \o SortGroups(S \ {m})

GroupKeys(rows) == SortGroups({GroupOf(rows[k].key) : k \in DOMAIN rows})

\* Mutant of IdxMax: the group's first row with a defined median (first()
\* in place of idxmax()).
IdxMax_First(rows, g) ==
    LET cand == {k \in DOMAIN rows :
                    GroupOf(rows[k].key) = g /\ Median2(rows[k].vals) # NA}
    IN  IF cand = {} THEN NA ELSE CHOOSE k \in cand : \A j \in cand : k <= j

\* idxmax of one group: the first row (in row order) holding the largest
\* defined median of the group; NA when no row of the group has a median.
IdxMax(rows, g) ==
    LET cand == {k \in DOMAIN rows :
                    GroupOf(rows[k].key) = g /\ Median2(rows[k].vals) # NA}
    IN  IF cand = {} THEN NA
        ELSE CHOOSE k \in cand :
                \A j \in cand :
                    \/ Median2(rows[k].vals) > Median2(rows[j].vals)
                    \/ Median2(rows[k].vals) = Median2(rows[j].vals) /\ k <= j

\* Mutant of FeatureID: the cell type left out of the identifier.
FeatureID_GeneOnly(gene, ct) == gene

\* FeatureID = Phase3_Gene + '__' + CellType
FeatureID(gene, ct) == gene \o "__" \o ct

\* df_selection.loc[idx_max] raises KeyError when idx_max holds a NaN label.
SelectionRaises(m) ==
    \E g \in Range(GroupKeys(m.rows)) : IdxMax(m.rows, g) = NA

\* The final matrix: one row per group, in group order, keyed by FeatureID,
\* holding the selected row's per-individual values.
SelectRepresentatives(m) ==
    LET groups == GroupKeys(m.rows)
    IN  [columns |-> m.columns,
         rows |-> [n \in DOMAIN groups |->
                      [FeatureID |-> FeatureID(groups[n][1], groups[n][2]),
                       vals |-> m.rows[IdxMax(m.rows, groups[n])].vals]]]

---------------------------------------------------------------------------
(* Phase 5: messages and the run as a function of its inputs *)

MsgNoFiles == "FATAL ERROR: No files found matching pattern"
MsgSkip == "WARNING: Skipping file"
MsgNoData == "No data successfully processed. Exiting."
MsgUncaught == "FATAL UNCAUGHT ERROR in Phase 5 Collation"

\* The frames the collation loop gathers from a list of file names.
RECURSIVE LoadAll(_, _)
LoadAll(dir, names) ==
    IF names = <<>> THEN <<>>
    ELSE LET rest == LoadAll(dir, SubSeq(names, 1, Len(names) - 1))
             name == names[Len(names)]
         IN  IF LoadRaises(dir[name]) THEN rest
             ELSE Append(rest, LongFrame(name, dir[name]))

\* The matrix the selection works on: filtered by v2, raw in v1.
FilteredMatrix(scr, n, raw) ==
    IF scr = "v2" THEN SampleSizeFilter(raw, n) ELSE raw

\* The whole run on the files `names` of `dir` (in that order): the exit
\* code and the output file.
RunOutcome(scr, n, dir, names, sorts) ==
    LET frames == LoadAll(dir, names)
        m == FilteredMatrix(scr, n, ConcatAxis1(frames, sorts))
    IN  IF names = <<>> \/ frames = <<>> THEN [exit |-> 0, out |-> <<>>]
        ELSE IF SelectionRaises(m) THEN [exit |-> 1, out |-> <<>>]
        ELSE [exit |-> 0, out |-> <<SelectRepresentatives(m)>>]

---------------------------------------------------------------------------
(* Phase 5 as a state machine: run_phase5_collation_and_selection and main *)

\* Phase 3 does not run.
Phase3Idle ==
    /\ p3_script = "v5"
    /\ raw_files = <<>>
    /\ p3_f = 1
    /\ raw_df_list = <<>>
    /\ raw_df = <<>>
    /\ p3_output = <<>>
    /\ p3_stderr = <<>>
    /\ p3_exit = <<>>
    /\ pc3 = "idle"

\* The annotator does not run.
AnnotIdle ==
    /\ annot_script = "v5"
    /\ gtf_lines = <<>>
    /\ gtf_readable = TRUE
    /\ site_pos = 0
    /\ gtf_df = <<>>
    /\ annotation = <<>>
    /\ annot_exit = <<>>
    /\ pcA = "idle"

\* Phase 4 does not run.
Phase4Idle ==
    /\ p4_script = "v3"
    /\ phase3_df = <<>>
    /\ germline_vcf = [readable |-> TRUE, snps |-> {}]
    /\ gtf_annotation = [readable |-> TRUE, junctions |-> {}]
    /\ pileups = <<>>
    /\ site_annotation = <<>>
    /\ p4_k = 1
    /\ matrix_rows = <<>>
    /\ p4_output = <<>>
    /\ p4_stderr = <<>>
    /\ p4_exit = <<>>
    /\ pc4 = "idle"

\* No stage is being killed and resubmitted.
RetryIdle ==
    /\ rt_stage = "phase3"
    /\ rt_table = <<>>
    /\ rt_files = <<>>
    /\ rt_step = 1
    /\ rt_pos = 1
    /\ rt_aborts = 0
    /\ rt_partial = FALSE
    /\ pcR = "idle"

\* None of the stages modelled further down runs.
LateIdle ==
    /\ Phase3Idle
    /\ AnnotIdle
    /\ Phase4Idle
    /\ RetryIdle

\* Phase 8 does not run.
Phase8Idle ==
    /\ fdr_script = "qf"
    /\ fdr_threshold = <<0, 0>>
    /\ fdr_files = <<>>
    /\ fdr_i = 1
    /\ all_pvalues = <<>>
    /\ df_combined = <<>>
    /\ lead_table = <<>>
    /\ full_table = <<>>
    /\ fdr_stderr = <<>>
    /\ fdr_exit = <<>>
    /\ pc8 = "idle"

\* The Covariate Merger does not run.
CovIdle ==
    /\ cov_script = "v1"
    /\ individual_ids = {}
    /\ cov_files = <<>>
    /\ cov_k = 1
    /\ covariates = <<>>
    /\ covariate_matrix = <<>>
    /\ cov_output = <<>>
    /\ covariate_file = <<>>
    /\ phenotype_file = <<>>
    /\ cov_stderr = <<>>
    /\ cov_exit = <<>>
    /\ pcC = "idle"

Phase6Idle ==
    /\ int_script = "v1"
    /\ nan_propagates = FALSE
    /\ data = <<>>
    /\ ranked_data = <<>>
    /\ normalized_ranks = <<>>
    /\ transformed = <<>>
    /\ pc6 = "idle"

Init ==
    /\ script \in {"v1", "v2"}
    /\ min_samples \in (IF script = "v2" THEN 0..MaxMinSamples ELSE {0})
    /\ union_sorts \in BOOLEAN
    /\ \E gene2 \in Range(Genes), ct1 \in Range(CellTypes) :
           input_dir \in Directories(gene2, ct1)
    /\ input_files = <<>>
    /\ i = 1
    /\ all_data = <<>>
    /\ population_matrix_raw = <<>>
    /\ population_matrix_filtered = <<>>
    /\ output_file = <<>>
    /\ stderr = <<>>
    /\ exit_code = <<>>
    /\ pc5 = "start"
    /\ Phase6Idle
    /\ Phase8Idle
    /\ CovIdle
    /\ LateIdle

\* input_files = glob.glob(input_pattern); no match: message and return.
Glob ==
    /\ pc5 = "start"
    /\ \E order \in Orderings(DOMAIN input_dir) :
           /\ input_files' = order
           /\ IF order = <<>>
              THEN /\ stderr' = Append(stderr, MsgNoFiles)
                   /\ exit_code' = <<0>>
                   /\ pc5' = "done"
              ELSE /\ pc5' = "loop"
                   /\ UNCHANGED <<stderr, exit_code>>
    /\ UNCHANGED <<script, min_samples, union_sorts, input_dir, i, all_data,
                   population_matrix_raw, population_matrix_filtered, output_file>>
    /\ UNCHANGED <<vars6, vars8, varsC, varsLate>>

\* Mutant of ProcessFile: no except clause, the exception reaches main.
ProcessFile_Uncaught ==
    /\ pc5 = "loop"
    /\ i <= Len(input_files)
    /\ LET name == input_files[i]
       IN  IF LoadRaises(input_dir[name])
           THEN /\ stderr' = Append(stderr, MsgUncaught)
                /\ exit_code' = <<1>>
                /\ pc5' = "done"
                /\ UNCHANGED all_data
           ELSE /\ all_data' = Append(all_data, LongFrame(name, input_dir[name]))
                /\ UNCHANGED <<stderr, exit_code, pc5>>
    /\ i' = i + 1
    /\ UNCHANGED <<script, min_samples, union_sorts, input_dir, input_files,
                   population_matrix_raw, population_matrix_filtered, output_file>>
    /\ UNCHANGED <<vars6, vars8, varsC, varsLate>>

\* One iteration of the collation loop: the try block and its except clause.
ProcessFile ==
    /\ pc5 = "loop"
    /\ i <= Len(input_files)
    /\ LET name == input_files[i]
       IN  IF LoadRaises(input_dir[name])
           THEN /\ stderr' = Append(stderr, MsgSkip)
                /\ UNCHANGED all_data
           ELSE /\ all_data' = Append(all_data, LongFrame(name, input_dir[name]))
                /\ UNCHANGED stderr
    /\ i' = i + 1
    /\ UNCHANGED <<script, min_samples, union_sorts, input_dir, input_files,
                   population_matrix_raw, population_matrix_filtered, output_file,
                   exit_code, pc5>>
    /\ UNCHANGED <<vars6, vars8, varsC, varsLate>>

\* After the loop: nothing loaded: message and return; else pd.concat.
Collate ==
    /\ pc5 = "loop"
    /\ i > Len(input_files)
    /\ IF all_data = <<>>
       THEN /\ stderr' = Append(stderr, MsgNoData)
            /\ exit_code' = <<0>>
            /\ pc5' = "done"
            /\ UNCHANGED population_matrix_raw
       ELSE /\ population_matrix_raw' = <<ConcatAxis1(all_data, union_sorts)>>
            /\ pc5' = IF script = "v2" THEN "filter" ELSE "select"
            /\ UNCHANGED <<stderr, exit_code>>
    /\ UNCHANGED <<script, min_samples, union_sorts, input_dir, input_files, i,
                   all_data, population_matrix_filtered, output_file>>
    /\ UNCHANGED <<vars6, vars8, varsC, varsLate>>

\* v2 only: the sample-size filter.
ApplySampleSizeFilter ==
    /\ pc5 = "filter"
    /\ population_matrix_filtered' =
           <<SampleSizeFilter(population_matrix_raw[1], min_samples)>>
    /\ pc5' = "select"
    /\ UNCHANGED <<script, min_samples, union_sorts, input_dir, input_files, i,
                   all_data, population_matrix_raw, output_file, stderr, exit_code>>
    /\ UNCHANGED <<vars6, vars8, varsC, varsLate>>

\* The matrix the selection reads: the filtered one in v2, the raw one in v1.
SelectionInput ==
    IF script = "v2" THEN population_matrix_filtered[1] ELSE population_matrix_raw[1]

\* Median, idxmax, .loc, re-keying and to_csv; an exception reaches main's
\* handler, which prints the FATAL UNCAUGHT message and exits with 1.
SelectAndWrite ==
    /\ pc5 = "select"
    /\ IF SelectionRaises(SelectionInput)
       THEN /\ stderr' = Append(stderr, MsgUncaught)
            /\ exit_code' = <<1>>
            /\ UNCHANGED output_file
       ELSE /\ output_file' = <<SelectRepresentatives(SelectionInput)>>
            /\ exit_code' = <<0>>
            /\ UNCHANGED stderr
    /\ pc5' = "done"
    /\ UNCHANGED <<script, min_samples, union_sorts, input_dir, input_files, i,
                   all_data, population_matrix_raw, population_matrix_filtered>>
    /\ UNCHANGED <<vars6, vars8, varsC, varsLate>>

Next ==
    \/ Glob
    \/ ProcessFile
    \/ Collate
    \/ ApplySampleSizeFilter
    \/ SelectAndWrite

Spec == Init /\ [][Next]_vars

---------------------------------------------------------------------------
(* Properties of Phase 5 *)

\* The groups of a matrix in which some row has a defined median.
SelectableGroups(m) ==
    {g \in Range(GroupKeys(m.rows)) :
        \E k \in DOMAIN m.rows :
            GroupOf(m.rows[k].key) = g /\ Median2(m.rows[k].vals) # NA}

\* Row k of m lies in group g and no row of g has a larger defined median.
IsMaxOfGroup(m, k, g) ==
    /\ GroupOf(m.rows[k].key) = g
    /\ Median2(m.rows[k].vals) # NA
    /\ \A j \in DOMAIN m.rows :
           (GroupOf(m.rows[j].key) = g /\ Median2(m.rows[j].vals) # NA)
               => Median2(m.rows[k].vals) >= Median2(m.rows[j].vals)

\* The run ended having written its output matrix.
Wrote == pc5 = "done" /\ output_file # <<>>

\* C1: in a run that wrote its output, every (Gene, CellType) group of the
\* (filtered) population matrix with a defined median has its output row,
\* keyed Gene__CellType, and that row holds the values of a row of the group
\* whose median is >= the median of every other row of the group.
C1_HighestMedianSelected ==
    Wrote =>
        LET m == SelectionInput
            groups == GroupKeys(m.rows)
            out == output_file[1]
        IN  \A n \in DOMAIN groups :
                groups[n] \in SelectableGroups(m) =>
                    /\ n \in DOMAIN out.rows
                    /\ out.rows[n].FeatureID = groups[n][1] \o "__" \o groups[n][2]
                    /\ \E k \in DOMAIN m.rows :
                           /\ IsMaxOfGroup(m, k, groups[n])
                           /\ out.rows[n].vals = m.rows[k].vals

\* C1 witness: a written output in which a group's selected row is not the
\* group's first row: a later row has the strictly larger median.
C1_Witness ==
    /\ Wrote
    /\ \E k, j \in DOMAIN SelectionInput.rows :
           /\ k < j
           /\ GroupOf(SelectionInput.rows[k].key) = GroupOf(SelectionInput.rows[j].key)
           /\ Median2(SelectionInput.rows[k].vals) # NA
           /\ Median2(SelectionInput.rows[j].vals) > Median2(SelectionInput.rows[k].vals)
           /\ \E n \in DOMAIN output_file[1].rows :
                  output_file[1].rows[n].vals = SelectionInput.rows[j].vals

\* C2 (as claimed): once the population matrix exists the selector completes
\* normally (exit code 0, output written); no output row is all-missing; and
\* the output has exactly one row per group with a defined median, groups
\* without one being left out.
C2_UndefinedGroupsOmitted ==
    (pc5 = "done" /\ population_matrix_raw # <<>>) =>
        /\ exit_code = <<0>>
        /\ output_file # <<>>
        /\ Len(output_file[1].rows) = Cardinality(SelectableGroups(SelectionInput))
        /\ \A n \in DOMAIN output_file[1].rows :
               SampleCount(output_file[1].rows[n].vals) > 0

\* What a run produced, irrespective of the order of the individual columns:
\* the exit code and, per output row, the FeatureID with each individual's value.
Content(outcome) ==
    [exit |-> outcome.exit,
     wrote |-> outcome.out # <<>>,
     rows |-> IF outcome.out = <<>> THEN {}
              ELSE {<<r.FeatureID,
                      {<<outcome.out[1].columns[c], r.vals[c]>> :
                          c \in DOMAIN outcome.out[1].columns}>> :
                       r \in Range(outcome.out[1].rows)}]

\* C3 (as claimed): the finished run's output is the one a run over the same
\* directory produces under any other enumeration order of its files.
C3_EnumerationOrderIndependent ==
    pc5 = "done" =>
        \A order \in Orderings(DOMAIN input_dir) :
            Content(RunOutcome(script, min_samples, input_dir, order, union_sorts))
                = Content([exit |-> exit_code[1], out |-> output_file])

\* C4: no two rows of the written matrix carry the same FeatureID; each
\* (Gene, CellType) group with a selectable row has exactly one row, keyed
\* Gene__CellType; and every row is the row of such a group.
C4_FeatureIDsUnique ==
    Wrote =>
        LET out == output_file[1]
            groups == SelectableGroups(SelectionInput)
        IN  /\ \A a, b \in DOMAIN out.rows :
                   a # b => out.rows[a].FeatureID # out.rows[b].FeatureID
            /\ \A g \in groups :
                   Cardinality({n \in DOMAIN out.rows :
                                   out.rows[n].FeatureID = g[1] \o "__" \o g[2]}) = 1
            /\ \A n \in DOMAIN out.rows :
                   \E g \in groups : out.rows[n].FeatureID = g[1] \o "__" \o g[2]

\* C4 witness: a written matrix with four Features, of two genes (one of
\* them with "__" in its symbol) and two cell types.
C4_Witness ==
    /\ Wrote
    /\ Len(output_file[1].rows) = 4
    /\ \E n \in DOMAIN output_file[1].rows :
           output_file[1].rows[n].FeatureID = "APP__B__Tcell"

\* C5: in v2 the rows that reach the selection are exactly the rows of the
\* raw matrix with at least min_samples non-missing values, in their order,
\* and every row written holds at least min_samples non-missing values.
C5_SampleSizeFilterFirst ==
    (script = "v2" /\ population_matrix_filtered # <<>>) =>
        LET raw == population_matrix_raw[1]
            kept == population_matrix_filtered[1]
        IN  /\ kept.columns = raw.columns
            /\ kept.rows = SelectSeq(raw.rows,
                               LAMBDA r : Cardinality({c \in DOMAIN r.vals : r.vals[c] # NA})
                                              >= min_samples)
            /\ Wrote =>
                   \A n \in DOMAIN output_file[1].rows :
                       /\ Cardinality({c \in DOMAIN output_file[1].rows[n].vals :
                                          output_file[1].rows[n].vals[c] # NA}) >= min_samples
                       /\ \E k \in DOMAIN kept.rows :
                              kept.rows[k].vals = output_file[1].rows[n].vals

\* C5 witness: a v2 run wrote its output although the row with the highest
\* median of some group had fewer than min_samples observed values: that row
\* was dropped and a row of the group with a lower median was written.
C5_Witness ==
    /\ script = "v2"
    /\ Wrote
    /\ \E k, j \in DOMAIN population_matrix_raw[1].rows :
           LET rk == population_matrix_raw[1].rows[k]
               rj == population_matrix_raw[1].rows[j]
           IN  /\ GroupOf(rk.key) = GroupOf(rj.key)
               /\ SampleCount(rk.vals) < min_samples
               /\ SampleCount(rj.vals) >= min_samples
               /\ Median2(rk.vals) > Median2(rj.vals)
               /\ \E n \in DOMAIN output_file[1].rows :
                      output_file[1].rows[n].vals = rj.vals

\* The file of the individual in a column of the population matrix.
FileOfColumn(id) == input_dir[FileNameOf(id)]

\* The (Site, Gene, CellType) keys that the rows of file f with a status in
\* `statuses` have, one per _ER column of the file.
KeysOfFile(f, statuses) ==
    {<<w.SiteID, w.Phase3_Gene, SubSeq(col, 1, Len(col) - 3)>> :
        w \in {x \in Range(f.rows) : x.GlobalFilterStatus \in statuses},
        col \in {c \in Range(f.header) : EndsWith(c, "_ER")}}

\* File f has a PASS row for `key` whose editing ratio is v.
HasPassValue(f, key, v) ==
    \E w \in Range(f.rows), col \in Range(f.header) :
        /\ EndsWith(col, "_ER")
        /\ w.GlobalFilterStatus = "PASS"
        /\ key = <<w.SiteID, w.Phase3_Gene, SubSeq(col, 1, Len(col) - 3)>>
        /\ w.cells[col] = v

\* C6: every key of the collated matrix is the key of a PASS row of some
\* loaded individual's file; an observed cell is the editing ratio of a PASS
\* row of that individual; and a row of any other status leaves that
\* individual's cell for its key missing.
C6_PassGate ==
    population_matrix_raw # <<>> =>
        LET m == population_matrix_raw[1]
        IN  \A r \in DOMAIN m.rows :
                /\ \E c \in DOMAIN m.columns :
                       m.rows[r].key \in KeysOfFile(FileOfColumn(m.columns[c]), {"PASS"})
                /\ \A c \in DOMAIN m.columns :
                       /\ m.rows[r].vals[c] # NA =>
                              HasPassValue(FileOfColumn(m.columns[c]), m.rows[r].key,
                                           m.rows[r].vals[c])
                       /\ m.rows[r].key \in
                              KeysOfFile(FileOfColumn(m.columns[c]),
                                         {x.GlobalFilterStatus :
                                             x \in Range(FileOfColumn(m.columns[c]).rows)}
                                             \ {"PASS"})
                              => m.rows[r].vals[c] = NA

\* C6 witness: the collated matrix has a row whose key one individual's file
\* holds only with a status other than PASS (with an editing ratio in the
\* file), and another individual's file as a PASS row.
C6_Witness ==
    /\ population_matrix_raw # <<>>
    /\ \E r \in DOMAIN population_matrix_raw[1].rows,
          c, d \in DOMAIN population_matrix_raw[1].columns :
           LET row == population_matrix_raw[1].rows[r]
               f == FileOfColumn(population_matrix_raw[1].columns[c])
           IN  /\ row.key \in KeysOfFile(f, {GermlineSNP})
               /\ \E w \in Range(f.rows) :
                      w.GlobalFilterStatus = GermlineSNP /\ \E col \in DOMAIN w.cells : w.cells[col] # NA
               /\ row.vals[c] = NA
               /\ row.vals[d] # NA

\* C7: the keys of the collated matrix are exactly the union of the keys of
\* the PASS rows of the loaded files, each once; and each cell is the
\* individual's editing ratio for the key, or missing when the individual's
\* file has no PASS row with the key.
C7_OuterAlignment ==
    population_matrix_raw # <<>> =>
        LET m == population_matrix_raw[1]
            loaded == {n \in Range(input_files) : ~LoadRaises(input_dir[n])}
        IN  /\ {FileNameOf(m.columns[c]) : c \in DOMAIN m.columns} = loaded
            /\ Len(m.columns) = Cardinality(loaded)
            /\ {m.rows[r].key : r \in DOMAIN m.rows}
                   = UNION {KeysOfFile(input_dir[n], {"PASS"}) : n \in loaded}
            /\ \A a, b \in DOMAIN m.rows : a # b => m.rows[a].key # m.rows[b].key
            /\ \A r \in DOMAIN m.rows, c \in DOMAIN m.columns :
                   IF m.rows[r].key \in KeysOfFile(FileOfColumn(m.columns[c]), {"PASS"})
                   THEN HasPassValue(FileOfColumn(m.columns[c]), m.rows[r].key,
                                     m.rows[r].vals[c])
                   ELSE m.rows[r].vals[c] = NA

\* C7 witness: two individuals are collated, each holding an observed key
\* that the other's file lacks, and both keys are rows of the matrix.
C7_Witness ==
    /\ population_matrix_raw # <<>>
    /\ Len(population_matrix_raw[1].columns) = 2
    /\ \E a, b \in DOMAIN population_matrix_raw[1].rows :
           /\ population_matrix_raw[1].rows[a].vals[1] # NA
           /\ population_matrix_raw[1].rows[a].vals[2] = NA
           /\ population_matrix_raw[1].rows[a].key
                  \notin KeysOfFile(FileOfColumn(population_matrix_raw[1].columns[2]), {PASS})
           /\ population_matrix_raw[1].rows[b].vals[2] # NA
           /\ population_matrix_raw[1].rows[b].key
                  \notin KeysOfFile(FileOfColumn(population_matrix_raw[1].columns[1]), {PASS})

\* C8: a finished run in which at least one file loaded ends as the run over
\* the loadable files alone (same order) ends, with the same exit code and
\* the same output, and printed one warning per file it skipped.
C8_PartialFailureSkipped ==
    (pc5 = "done" /\ \E n \in Range(input_files) : ~LoadRaises(input_dir[n])) =>
        LET good == SelectSeq(input_files, LAMBDA n : ~LoadRaises(input_dir[n]))
        IN  /\ [exit |-> exit_code[1], out |-> output_file]
                   = RunOutcome(script, min_samples, input_dir, good, union_sorts)
            /\ Cardinality({k \in DOMAIN stderr : StartsWith(stderr[k], "WARNING")})
                   = Len(input_files) - Len(good)

\* C8 witness: a run over a file that cannot be loaded, enumerated first, and
\* one that can, wrote its output and printed the warning.
C8_Witness ==
    /\ Wrote
    /\ Len(input_files) = 2
    /\ LoadRaises(input_dir[input_files[1]])
    /\ ~LoadRaises(input_dir[input_files[2]])
    /\ output_file[1].rows # <<>>
    /\ \E k \in DOMAIN stderr : StartsWith(stderr[k], "WARNING")

\* C9 (as claimed): a run that found no input file, or loaded none, ends with
\* exit code 1, a FATAL-prefixed last message on stderr and no output.
C9_FatalExit ==
    (pc5 = "done" /\ (input_files = <<>> \/ all_data = <<>>)) =>
        /\ exit_code = <<1>>
        /\ output_file = <<>>
        /\ stderr # <<>>
        /\ StartsWith(stderr[Len(stderr)], "FATAL")

---------------------------------------------------------------------------
(* Phase 6: inverse_normal_transform *)

\* The entries of a that are not missing, in order (series[mask]).
ValidData(a) == SelectSeq(a, LAMBDA v : v # NA)

\* The position among the non-missing entries of the non-missing entry k.
ValidPos(a, k) == Cardinality({j \in 1..k : a[j] # NA})

\* Ordinal ranking (doubled): tied values take successive ranks in input
\* order instead of their average.
AverageRank2_Ordinal(a, k) ==
    2 * (Cardinality({j \in DOMAIN a : a[j] < a[k]})
         + Cardinality({j \in 1..k : a[j] = a[k]}))

\* scipy.stats.rankdata(a, method='average') on an array without NaN, doubled:
\* the average of the ranks lo+1..lo+eq that the eq entries equal to a[k]
\* occupy above the lo smaller ones is lo + (eq + 1) / 2.
AverageRank2(a, k) ==
    2 * Cardinality({j \in DOMAIN a : a[j] < a[k]})
        + Cardinality({j \in DOMAIN a : a[j] = a[k]}) + 1

\* rankdata on an array that may hold NaN, in a scipy that does not propagate
\* it (before 1.10): argsort puts the NaNs last and, NaN being unequal to
\* itself, each takes a rank of its own above all the numbers.
SortingRank2(a, k) ==
    IF a[k] # NA
    THEN AverageRank2(ValidData(a), ValidPos(a, k))
    ELSE 2 * (Len(ValidData(a)) + Cardinality({j \in 1..k : a[j] = NA}))

\* rankdata(data, method='average') as v2 calls it, on the whole array: with
\* a NaN present a scipy from 1.10 on returns NaN for every entry.
RankDataWhole(a, propagates) ==
    IF propagates /\ NA \in Range(a)
    THEN [k \in DOMAIN a |-> NA]
    ELSE [k \in DOMAIN a |-> SortingRank2(a, k)]

\* v1: ranks of the non-missing entries only, kept at their input positions
\* (NA elsewhere).
RankDataValid(a) ==
    [k \in DOMAIN a |->
        IF a[k] = NA THEN NA ELSE AverageRank2(ValidData(a), ValidPos(a, k))]

\* A missing fraction (NaN) is written 0/0.
NaNFraction == <<0, 0>>

IsNaN(p) == p[2] = 0

\* (rank - 0.5) / n with rank = r2 / 2: the fraction (r2 - 1) / (2 n).
NormalizedRank(r2, n) == IF r2 = NA THEN NaNFraction ELSE <<r2 - 1, 2 * n>>

\* The n the script divides by: len(valid_data) in v1, len(data) in v2.
Divisor(scr, a) == IF scr = "v1" THEN Len(ValidData(a)) ELSE Len(a)

\* ndtr(normalized_ranks), kept symbolic: the function applied and its
\* argument (ndtr of NaN is NaN).
Ndtr(p) == [fn |-> "ndtr", arg |-> p]

Phase5Idle ==
    /\ script = "v1"
    /\ min_samples = 0
    /\ union_sorts = FALSE
    /\ input_dir = <<>>
    /\ input_files = <<>>
    /\ i = 1
    /\ all_data = <<>>
    /\ population_matrix_raw = <<>>
    /\ population_matrix_filtered = <<>>
    /\ output_file = <<>>
    /\ stderr = <<>>
    /\ exit_code = <<>>
    /\ pc5 = "idle"

\* One feature's values: 1..MaxLen entries, each missing or in 1..MaxVal.
FeatureSequences ==
    UNION {[1..n -> {NA} \cup (1..MaxVal)] : n \in 1..MaxLen}

InitINT ==
    /\ Phase5Idle
    /\ Phase8Idle
    /\ CovIdle
    /\ LateIdle
    /\ int_script \in {"v1", "v2"}
    /\ nan_propagates \in BOOLEAN
    /\ data \in FeatureSequences
    /\ ranked_data = <<>>
    /\ normalized_ranks = <<>>
    /\ transformed = <<>>
    /\ pc6 = "rank"

\* Step 1: rankdata.
RankStep ==
    /\ pc6 = "rank"
    /\ ranked_data' = IF int_script = "v1" THEN RankDataValid(data)
                      ELSE RankDataWhole(data, nan_propagates)
    /\ pc6' = "normalize"
    /\ UNCHANGED <<int_script, nan_propagates, data, normalized_ranks, transformed>>
    /\ UNCHANGED <<vars5, vars8, varsC, varsLate>>

\* Step 2: (ranks - 0.5) / n.
NormalizeStep ==
    /\ pc6 = "normalize"
    /\ normalized_ranks' =
           [k \in DOMAIN data |-> NormalizedRank(ranked_data[k], Divisor(int_script, data))]
    /\ pc6' = "ndtr"
    /\ UNCHANGED <<int_script, nan_propagates, data, ranked_data, transformed>>
    /\ UNCHANGED <<vars5, vars8, varsC, varsLate>>

\* Step 3: ndtr and the return.
NdtrStep ==
    /\ pc6 = "ndtr"
    /\ transformed' = [k \in DOMAIN data |-> Ndtr(normalized_ranks[k])]
    /\ pc6' = "done"
    /\ UNCHANGED <<int_script, nan_propagates, data, ranked_data, normalized_ranks>>
    /\ UNCHANGED <<vars5, vars8, varsC, varsLate>>

NextINT ==
    \/ RankStep
    \/ NormalizeStep
    \/ NdtrStep

SpecINT == InitINT /\ [][NextINT]_vars

---------------------------------------------------------------------------
(* Properties of Phase 6 *)

\* C10 (as claimed): each non-missing value gets the percentile
\* (r - 0.5) / n, r its average-tie rank among the non-missing values and n
\* their number: with lo smaller and eq equal non-missing values,
\* r = lo + (eq + 1) / 2, so the percentile is (2 lo + eq) / (2 n).
C10_PercentileOverObserved ==
    pc6 = "done" =>
        LET n == Cardinality({j \in DOMAIN data : data[j] # NA})
        IN  \A k \in DOMAIN data :
                data[k] # NA =>
                    LET lo == Cardinality({j \in DOMAIN data :
                                              data[j] # NA /\ data[j] < data[k]})
                        eq == Cardinality({j \in DOMAIN data : data[j] = data[k]})
                    IN  /\ ~IsNaN(normalized_ranks[k])
                        /\ normalized_ranks[k][1] * (2 * n)
                               = (2 * lo + eq) * normalized_ranks[k][2]

---------------------------------------------------------------------------
(* The other rank normalizers: run_phase6_normalization.py ("norm"),       *)
(* inverse_normal_transformation, and                                      *)
(* run_phase3_individual_processing_v4.py ("rint"),                        *)
(* rank_inverse_normal_transform.  The returned values are kept symbolic:  *)
(* the function applied (fn) and the percentile or value it was applied to *)
(* (arg, a fraction).                                                      *)

\* pd.Series(np.nan, ...): a missing output value.
NaNValue == [fn |-> "nan", arg |-> NaNFraction]

\* scipy.stats.norm.ppf(p), the quantile function (ppf of NaN is NaN).
Ppf(p) == IF IsNaN(p) THEN NaNValue ELSE [fn |-> "ppf", arg |-> p]

\* An input value returned as it is.
Unchanged(x) == IF x = NA THEN NaNValue ELSE [fn |-> "id", arg |-> <<x, 1>>]

\* (transformed - transformed.mean()) / transformed.std() of ppf(p): mean
\* and std are those of the whole column, the same for all its entries.
Standardized(p) == IF IsNaN(p) THEN NaNValue ELSE [fn |-> "zscore_ppf", arg |-> p]

\* series.nunique(): the number of distinct non-missing values.
NUnique(a) == Cardinality(Range(a) \ {NA})

\* The columns rank_inverse_normal_transform receives hold no missing value
\* (matrix_df.fillna(0)); the others receive any feature sequence.
InputSequences(scr) ==
    IF scr = "rint" THEN {a \in FeatureSequences : NA \notin Range(a)}
    ELSE FeatureSequences

\* The first step of each implementation.
FirstStep(scr) ==
    CASE scr = "norm" -> "norm_guard"
      [] scr = "rint" -> "rint_guard"
      [] OTHER -> "rank"

InitRN ==
    /\ Phase5Idle
    /\ Phase8Idle
    /\ CovIdle
    /\ LateIdle
    /\ int_script \in {"v1", "v2", "norm", "rint"}
    /\ nan_propagates \in (IF int_script = "v2" THEN BOOLEAN ELSE {FALSE})
    /\ data \in InputSequences(int_script)
    /\ ranked_data = <<>>
    /\ normalized_ranks = <<>>
    /\ transformed = <<>>
    /\ pc6 = FirstStep(int_script)

\* norm: fewer than two non-missing values give an all-missing result.
NormGuard ==
    /\ pc6 = "norm_guard"
    /\ IF Len(ValidData(data)) < 2
       THEN /\ transformed' = [k \in DOMAIN data |-> NaNValue]
            /\ pc6' = "done"
       ELSE /\ transformed' = transformed
            /\ pc6' = "series_rank"
    /\ UNCHANGED <<int_script, nan_propagates, data, ranked_data, normalized_ranks>>
    /\ UNCHANGED <<vars5, vars8, varsC, varsLate>>

\* rint: a column with fewer than two distinct values (std() == 0 says the
\* same of a column without missing values) is returned as it is.
RintGuard ==
    /\ pc6 = "rint_guard"
    /\ IF NUnique(data) < 2
       THEN /\ transformed' = [k \in DOMAIN data |-> Unchanged(data[k])]
            /\ pc6' = "done"
       ELSE /\ transformed' = transformed
            /\ pc6' = "series_rank"
    /\ UNCHANGED <<int_script, nan_propagates, data, ranked_data, normalized_ranks>>
    /\ UNCHANGED <<vars5, vars8, varsC, varsLate>>

\* series.rank(method='average'), na_option 'keep': average ranks among the
\* non-missing values, missing ones stay missing.
SeriesRankStep ==
    /\ pc6 = "series_rank"
    /\ ranked_data' = RankDataValid(data)
    /\ pc6' = "percentile"
    /\ UNCHANGED <<int_script, nan_propagates, data, normalized_ranks, transformed>>
    /\ UNCHANGED <<vars5, vars8, varsC, varsLate>>

\* (rank - 0.5) / N: norm divides by the number of non-missing values, rint
\* by len(series).
PercentileStep ==
    /\ pc6 = "percentile"
    /\ normalized_ranks' =
           [k \in DOMAIN data |->
               NormalizedRank(ranked_data[k],
                              IF int_script = "norm" THEN Len(ValidData(data))
                              ELSE Len(data))]
    /\ pc6' = "ppf"
    /\ UNCHANGED <<int_script, nan_propagates, data, ranked_data, transformed>>
    /\ UNCHANGED <<vars5, vars8, varsC, varsLate>>

\* norm: norm.ppf of the percentiles, put back at their positions.
PpfStep ==
    /\ pc6 = "ppf"
    /\ int_script = "norm"
    /\ transformed' = [k \in DOMAIN data |-> Ppf(normalized_ranks[k])]
    /\ pc6' = "done"
    /\ UNCHANGED <<int_script, nan_propagates, data, ranked_data, normalized_ranks>>
    /\ UNCHANGED <<vars5, vars8, varsC, varsLate>>

\* rint: norm.ppf of the percentiles, then standardized.
PpfStandardizeStep ==
    /\ pc6 = "ppf"
    /\ int_script = "rint"
    /\ transformed' = [k \in DOMAIN data |-> Standardized(normalized_ranks[k])]
    /\ pc6' = "done"
    /\ UNCHANGED <<int_script, nan_propagates, data, ranked_data, normalized_ranks>>
    /\ UNCHANGED <<vars5, vars8, varsC, varsLate>>

NextRN ==
    \/ RankStep
    \/ NormalizeStep
    \/ NdtrStep
    \/ NormGuard
    \/ RintGuard
    \/ SeriesRankStep
    \/ PercentileStep
    \/ PpfStep
    \/ PpfStandardizeStep

SpecRN == InitRN /\ [][NextRN]_vars

---------------------------------------------------------------------------
(* Properties of the rank normalizers *)

\* An output value is missing.
IsMissing(v) == IsNaN(v.arg)

\* The sign (-1, 0, 1) of a non-missing ndtr, ppf or unchanged value:
\* ndtr(x), a probability, is positive for every x; ppf(p) has the sign of
\* p - 1/2; an unchanged value has its own sign.
SignOf(v) ==
    LET d == CASE v.fn = "ndtr" -> 1
               [] v.fn = "ppf" -> 2 * v.arg[1] - v.arg[2]
               [] OTHER -> v.arg[1]
    IN  IF d < 0 THEN -1 ELSE IF d = 0 THEN 0 ELSE 1

\* v = -w for non-missing values of one function: ppf(p) = -ppf(1 - p);
\* two ndtr values, both positive, are never opposite.
Opposite(v, w) ==
    CASE v.fn = "ppf" /\ w.fn = "ppf" ->
             v.arg[1] * w.arg[2] + w.arg[1] * v.arg[2] = v.arg[2] * w.arg[2]
      [] OTHER -> FALSE

\* v < w for non-missing values of one column: ndtr, ppf, the identity and
\* the standardization (std > 0) all increase strictly with their argument.
ValueLess(v, w) ==
    /\ ~IsMissing(v)
    /\ ~IsMissing(w)
    /\ v.fn = w.fn
    /\ v.arg[1] * w.arg[2] < w.arg[1] * v.arg[2]

\* The number of non-missing input values.
Observed == Cardinality({k \in DOMAIN data : data[k] # NA})

\* C11 (as claimed): in the Rank Normalizer scripts (v1, v2, norm) a
\* non-missing output is the quantile of its percentile p: 0 for p = 1/2,
\* negative for p < 1/2, and the outputs of percentiles p and 1 - p are
\* opposite.
C11_QuantileMapping ==
    (pc6 = "done" /\ int_script \in {"v1", "v2", "norm"}) =>
        \A k \in DOMAIN transformed :
            ~IsMissing(transformed[k]) =>
                LET p == transformed[k].arg
                IN  /\ 2 * p[1] = p[2] => SignOf(transformed[k]) = 0
                    /\ 2 * p[1] < p[2] => SignOf(transformed[k]) = -1
                    /\ \A j \in DOMAIN transformed :
                           (/\ ~IsMissing(transformed[j])
                            /\ p[1] * transformed[j].arg[2] + transformed[j].arg[1] * p[2]
                                   = p[2] * transformed[j].arg[2])
                               => Opposite(transformed[k], transformed[j])

\* C12 (as claimed): with at least two observed values the output has the
\* input's length and is missing exactly where the input is missing.
C12_MissingPreserved ==
    (pc6 = "done" /\ Observed >= 2) =>
        /\ Len(transformed) = Len(data)
        /\ \A k \in DOMAIN data : IsMissing(transformed[k]) <=> data[k] = NA

\* C13 (as claimed): with fewer than two observed values the whole output
\* is missing.
C13_DegenerateAllMissing ==
    (pc6 = "done" /\ Observed < 2) =>
        /\ Len(transformed) = Len(data)
        /\ \A k \in DOMAIN data : IsMissing(transformed[k])

\* C14: for a fully observed input, outputs are order-isomorphic to inputs:
\* a smaller input has a smaller output, equal inputs have equal outputs,
\* and no output is missing when there are two or more inputs.
C14_OrderPreserved ==
    (pc6 = "done" /\ NA \notin Range(data)) =>
        /\ Len(transformed) = Len(data)
        /\ \A a, b \in DOMAIN data :
               a # b =>
                   /\ ~IsMissing(transformed[a])
                   /\ data[a] < data[b] => ValueLess(transformed[a], transformed[b])
                   /\ data[a] = data[b] => transformed[a] = transformed[b]

\* C14 witness: a quantile-transformed, fully observed sequence of three
\* values, two of them tied and the third larger.
C14_Witness ==
    /\ pc6 = "done"
    /\ int_script = "norm"
    /\ data = <<2, 1, 1>>
    /\ transformed[2] = transformed[3]
    /\ ValueLess(transformed[3], transformed[1])

---------------------------------------------------------------------------
(* Phase 8: qvalue_filter_phase8.py ("qf") and                             *)
(* process_fastqtl_results_p8.py ("pf").  P-values and q-values are exact  *)
(* fractions <<numerator, denominator>> in lowest terms; NaN is 0/0.       *)

RECURSIVE GCD(_, _)
GCD(a, b) == IF b = 0 THEN a ELSE GCD(b, a % b)

\* The fraction n/d (d > 0) in lowest terms.
Frac(n, d) == <<n \div GCD(n, d), d \div GCD(n, d)>>

FracLess(a, b) == a[1] * b[2] < b[1] * a[2]

FracLeq(a, b) == a[1] * b[2] <= b[1] * a[2]

\* alpha=0.05 of multipletests (its default, and the value qf passes).
Alpha == <<1, 20>>

\* The p-values of the result files: 0.025, 0.05, 0.075 and 1.
PValues == {<<1, 40>>, <<1, 20>>, <<3, 40>>, <<1, 1>>}

Features == {"F1", "F2"}

\* np.argsort(pvals): the position of entry k in ascending order, NaN last
\* (equal entries in input order; their results do not depend on it).
SortPos(ps, k) ==
    IF IsNaN(ps[k])
    THEN Cardinality({j \in DOMAIN ps : ~IsNaN(ps[j])})
             + Cardinality({j \in 1..k : IsNaN(ps[j])})
    ELSE Cardinality({j \in DOMAIN ps : ~IsNaN(ps[j]) /\ FracLess(ps[j], ps[k])})
             + Cardinality({j \in 1..k : ps[j] = ps[k]})

\* np.take(pvals, sortind).
SortedPvals(ps) ==
    [j \in DOMAIN ps |-> ps[CHOOSE k \in DOMAIN ps : SortPos(ps, k) = j]]

\* pvals_sorted / ecdffactor with ecdffactor = j / m.
RawCorrected(sorted, j) ==
    IF IsNaN(sorted[j]) THEN NaNFraction
    ELSE Frac(Len(sorted) * sorted[j][1], j * sorted[j][2])

\* np.minimum.accumulate from the largest p-value down (np.minimum gives
\* NaN once a NaN was met), then values above 1 set to 1.
PvalsCorrected(sorted, j) ==
    IF \E h \in j..Len(sorted) : IsNaN(sorted[h]) THEN NaNFraction
    ELSE LET raws == {RawCorrected(sorted, h) : h \in j..Len(sorted)}
             least == CHOOSE f \in raws : \A g \in raws : FracLeq(f, g)
         IN  IF least[1] > least[2] THEN <<1, 1>> ELSE least

\* reject = pvals_sorted <= ecdffactor * alpha, then everything before the
\* last rejected position is rejected too.
Reject(sorted, j, alpha) ==
    \E h \in j..Len(sorted) :
        /\ ~IsNaN(sorted[h])
        /\ sorted[h][1] * Len(sorted) * alpha[2] <= h * alpha[1] * sorted[h][2]

\* multipletests(pvals, alpha, method='fdr_bh') on a non-empty array: per
\* input position the rejection flag and the corrected p-value.
Multipletests(ps, alpha) ==
    [k \in DOMAIN ps |->
        [reject |-> Reject(SortedPvals(ps), SortPos(ps, k), alpha),
         qval |-> PvalsCorrected(SortedPvals(ps), SortPos(ps, k))]]

\* A line of a result file, as read_csv parses it: the feature, the variant
\* and the empirical p-value, NaN for an NA / nan token.
ResultRow(f, v, p) == [feature_id |-> f, variant_id |-> v, p_empirical |-> p]

\* The first line of a file: a header, or (FastQTL writes none) a record.
FirstLines == {ResultRow("gene_id", "variant_id", NaNFraction),
               ResultRow("F1", "v0", <<1, 40>>)}

\* The variant names of the lines after the first, by file and line.
VariantNames == <<<<"v11", "v12">>, <<"v21">>>>

\* A path that does not exist, and a file read_csv raises on.
MissingResultFile == [exists |-> FALSE, parsable |-> FALSE, lines |-> <<>>]

UnparsableResultFile == [exists |-> TRUE, parsable |-> FALSE, lines |-> <<>>]

\* The readable result files of command-line position n: a first line and
\* up to Len(VariantNames[n]) records.
ResultFiles(n) ==
    {[exists |-> TRUE, parsable |-> TRUE,
      lines |-> <<first>> \o [k \in 1..len |-> ResultRow(fs[k], VariantNames[n][k], ps[k])]] :
        first \in (IF n = 1 THEN FirstLines
                   ELSE {ResultRow("gene_id", "variant_id", NaNFraction)}),
        len \in 0..Len(VariantNames[n]),
        fs \in [1..Len(VariantNames[n]) -> Features],
        ps \in [1..Len(VariantNames[n]) -> PValues \cup {NaNFraction}]}

\* qf: the edQTL and the AEI-QTL result lists, one file each.
QfInputs ==
    {<<a, b>> : a \in ResultFiles(1) \cup {MissingResultFile, UnparsableResultFile},
                b \in ResultFiles(2) \cup {MissingResultFile, UnparsableResultFile}}

\* pf: FastQTL's permutation output, one record per feature, no header
\* (header=None); an empty file makes read_csv raise.
PfInputs ==
    {<<f>> : f \in {MissingResultFile, UnparsableResultFile}} \cup
    {<<[exists |-> TRUE, parsable |-> TRUE,
        lines |-> [k \in 1..Len(fs) |-> ResultRow(fs[k], VariantNames[1][k], ps[k])]]>> :
        fs \in {<<"F1">>, <<"F2">>, <<"F1", "F2">>},
        ps \in [1..2 -> PValues \cup {NaNFraction}]}

\* pd.read_csv(..., skiprows=1) of qf: the lines after the first.
ReadSkippingFirst(f) == Tail(f.lines)

RECURSIVE ConcatFrames(_)
\* pd.concat(all_pvalues, ignore_index=True).
ConcatFrames(frames) ==
    IF frames = <<>> THEN <<>> ELSE Head(frames) \o ConcatFrames(Tail(frames))

\* df.dropna(subset=['p_empirical']).
DropNaP(rows) == SelectSeq(rows, LAMBDA r : ~IsNaN(r.p_empirical))

\* The rows with the columns q_value and FDR_significant (qf) or Q_value and
\* Significant (pf) that multipletests returns.
WithQvalues(rows, alpha) ==
    LET res == Multipletests([k \in DOMAIN rows |-> rows[k].p_empirical], alpha)
    IN  [k \in DOMAIN rows |->
            [feature_id |-> rows[k].feature_id, variant_id |-> rows[k].variant_id,
             p_empirical |-> rows[k].p_empirical,
             q_value |-> res[k].qval, significant |-> res[k].reject]]

\* df_combined[df_combined['FDR_significant']].
DfSignificant(rows) == SelectSeq(rows, LAMBDA r : r.significant)

\* groupby('feature_id')['p_empirical'].idxmin(): per feature the first
\* position with the smallest p-value.
IdxMin(rows, f) ==
    CHOOSE k \in DOMAIN rows :
        /\ rows[k].feature_id = f
        /\ \A j \in DOMAIN rows :
               rows[j].feature_id = f =>
                   /\ FracLeq(rows[k].p_empirical, rows[j].p_empirical)
                   /\ rows[j].p_empirical = rows[k].p_empirical => k <= j

\* df_significant.loc[idx]: the lead rows, in the order of the (sorted)
\* group keys.
LeadSnps(rows) ==
    LET fs == {rows[k].feature_id : k \in DOMAIN rows}
        ks == {IdxMin(rows, f) : f \in fs}
        ordered == SortSeq(CHOOSE q \in [1..Cardinality(ks) -> ks] :
                               \A a, b \in 1..Cardinality(ks) : a # b => q[a] # q[b],
                           LAMBDA a, b : PosIn(<<"F1", "F2">>, rows[a].feature_id)
                                             < PosIn(<<"F1", "F2">>, rows[b].feature_id))
    IN  [n \in 1..Cardinality(ks) |-> rows[ordered[n]]]

\* sort_values(by='q_value'): ascending q-value (rows of equal q-value in
\* the order they had).
SortByQ(rows) ==
    LET pos(k) == Cardinality({j \in DOMAIN rows : FracLess(rows[j].q_value, rows[k].q_value)})
                      + Cardinality({j \in 1..k : rows[j].q_value = rows[k].q_value})
    IN  [n \in DOMAIN rows |-> rows[CHOOSE k \in DOMAIN rows : pos(k) = n]]

\* df_raw[df_raw['Q_value'] < FDR_THRESHOLD] (a NaN compares false).
BelowThreshold(rows, thr) ==
    SelectSeq(rows, LAMBDA r : ~IsNaN(r.q_value) /\ FracLess(r.q_value, thr))

MsgNotFound == "WARNING: Input file not found"

MsgErrorProcessing == "ERROR processing"

MsgNoValidData == "FATAL ERROR: No valid data loaded for correction. Exiting."

MsgUncaught8 == "FATAL UNCAUGHT ERROR in Phase 8"

MsgPfNotFound == "FATAL ERROR: Input file not found"

MsgPfLoad == "FATAL ERROR while loading file"

MsgPfEmpty == "WARNING: FastQTL output file is empty. Exiting."

\* pf takes --fdr_threshold (default 0.05); qf's threshold is the fixed
\* alpha=0.05.
Thresholds(scr) == IF scr = "pf" THEN {<<1, 20>>, <<1, 10>>} ELSE {Alpha}

Init8 ==
    /\ Phase5Idle
    /\ Phase6Idle
    /\ CovIdle
    /\ LateIdle
    /\ fdr_script \in {"qf", "pf"}
    /\ fdr_threshold \in Thresholds(fdr_script)
    /\ fdr_files \in (IF fdr_script = "qf" THEN QfInputs ELSE PfInputs)
    /\ fdr_i = 1
    /\ all_pvalues = <<>>
    /\ df_combined = <<>>
    /\ lead_table = <<>>
    /\ full_table = <<>>
    /\ fdr_stderr = <<>>
    /\ fdr_exit = <<>>
    /\ pc8 = IF fdr_script = "qf" THEN "load" ELSE "pf_load"

\* qf: one pass of the loading loop.  A missing file and a file read_csv
\* raises on are reported and skipped.
LoadResultFile ==
    /\ pc8 = "load"
    /\ fdr_i <= Len(fdr_files)
    /\ LET f == fdr_files[fdr_i]
       IN  IF ~f.exists
           THEN /\ fdr_stderr' = Append(fdr_stderr, MsgNotFound)
                /\ UNCHANGED all_pvalues
           ELSE IF ~f.parsable
           THEN /\ fdr_stderr' = Append(fdr_stderr, MsgErrorProcessing)
                /\ UNCHANGED all_pvalues
           ELSE /\ all_pvalues' = Append(all_pvalues, ReadSkippingFirst(f))
                /\ UNCHANGED fdr_stderr
    /\ fdr_i' = fdr_i + 1
    /\ UNCHANGED <<fdr_script, fdr_threshold, fdr_files, df_combined, lead_table,
                   full_table, fdr_exit, pc8>>
    /\ UNCHANGED <<vars5, vars6, varsC, varsLate>>

\* qf after the loop: without any loaded file the function prints and
\* returns (the process ends with exit code 0); otherwise the frames are
\* concatenated and the rows without a p-value dropped.
Combine ==
    /\ pc8 = "load"
    /\ fdr_i > Len(fdr_files)
    /\ IF all_pvalues = <<>>
       THEN /\ fdr_stderr' = Append(fdr_stderr, MsgNoValidData)
            /\ fdr_exit' = <<0>>
            /\ pc8' = "done"
            /\ UNCHANGED df_combined
       ELSE /\ df_combined' = <<DropNaP(ConcatFrames(all_pvalues))>>
            /\ pc8' = "correct"
            /\ UNCHANGED <<fdr_stderr, fdr_exit>>
    /\ UNCHANGED <<fdr_script, fdr_threshold, fdr_files, fdr_i, all_pvalues,
                   lead_table, full_table>>
    /\ UNCHANGED <<vars5, vars6, varsC, varsLate>>

\* qf: multipletests.  On an empty array it divides by the number of tests
\* (1./ntests) and raises; main's handler prints and exits with 1.
Correct ==
    /\ pc8 = "correct"
    /\ IF df_combined[1] = <<>>
       THEN /\ fdr_stderr' = Append(fdr_stderr, MsgUncaught8)
            /\ fdr_exit' = <<1>>
            /\ pc8' = "done"
            /\ UNCHANGED df_combined
       ELSE /\ df_combined' = <<WithQvalues(df_combined[1], Alpha)>>
            /\ pc8' = "lead"
            /\ UNCHANGED <<fdr_stderr, fdr_exit>>
    /\ UNCHANGED <<fdr_script, fdr_threshold, fdr_files, fdr_i, all_pvalues,
                   lead_table, full_table>>
    /\ UNCHANGED <<vars5, vars6, varsC, varsLate>>

\* qf: the lead variant of each feature with a significant row, written
\* in ascending q-value.
WriteLeadSnps ==
    /\ pc8 = "lead"
    /\ lead_table' = <<SortByQ(LeadSnps(DfSignificant(df_combined[1])))>>
    /\ pc8' = "full"
    /\ UNCHANGED <<fdr_script, fdr_threshold, fdr_files, fdr_i, all_pvalues,
                   df_combined, full_table, fdr_stderr, fdr_exit>>
    /\ UNCHANGED <<vars5, vars6, varsC, varsLate>>

\* qf: the full corrected table is written and the process ends.
WriteFullCorrected ==
    /\ pc8 = "full"
    /\ full_table' = <<df_combined[1]>>
    /\ fdr_exit' = <<0>>
    /\ pc8' = "done"
    /\ UNCHANGED <<fdr_script, fdr_threshold, fdr_files, fdr_i, all_pvalues,
                   df_combined, lead_table, fdr_stderr>>
    /\ UNCHANGED <<vars5, vars6, varsC, varsLate>>

\* pf: loading.  A missing or unreadable file is fatal (exit 1); an empty
\* table ends the process with exit code 0.
PfLoad ==
    /\ pc8 = "pf_load"
    /\ LET f == fdr_files[1]
       IN  IF ~f.exists \/ ~f.parsable
           THEN /\ fdr_stderr' = Append(fdr_stderr,
                                        IF ~f.exists THEN MsgPfNotFound ELSE MsgPfLoad)
                /\ fdr_exit' = <<1>>
                /\ pc8' = "done"
                /\ UNCHANGED all_pvalues
           ELSE IF f.lines = <<>>
           THEN /\ fdr_stderr' = Append(fdr_stderr, MsgPfEmpty)
                /\ fdr_exit' = <<0>>
                /\ pc8' = "done"
                /\ UNCHANGED all_pvalues
           ELSE /\ all_pvalues' = <<f.lines>>
                /\ pc8' = "pf_correct"
                /\ UNCHANGED <<fdr_stderr, fdr_exit>>
    /\ UNCHANGED <<fdr_script, fdr_threshold, fdr_files, fdr_i, df_combined,
                   lead_table, full_table>>
    /\ UNCHANGED <<vars5, vars6, varsC, varsLate>>

\* pf: multipletests on all P_beta values (no dropna), with its default
\* alpha.
PfCorrect ==
    /\ pc8 = "pf_correct"
    /\ df_combined' = <<WithQvalues(all_pvalues[1], Alpha)>>
    /\ pc8' = "pf_write"
    /\ UNCHANGED <<fdr_script, fdr_threshold, fdr_files, fdr_i, all_pvalues,
                   lead_table, full_table, fdr_stderr, fdr_exit>>
    /\ UNCHANGED <<vars5, vars6, varsC, varsLate>>

\* pf: the rows with Q_value < FDR_THRESHOLD form the significant table;
\* the full table and the significant table are written.
PfWrite ==
    /\ pc8 = "pf_write"
    /\ full_table' = <<df_combined[1]>>
    /\ lead_table' = <<BelowThreshold(df_combined[1], fdr_threshold)>>
    /\ fdr_exit' = <<0>>
    /\ pc8' = "done"
    /\ UNCHANGED <<fdr_script, fdr_threshold, fdr_files, fdr_i, all_pvalues,
                   df_combined, fdr_stderr>>
    /\ UNCHANGED <<vars5, vars6, varsC, varsLate>>

Next8 ==
    \/ LoadResultFile
    \/ Combine
    \/ Correct
    \/ WriteLeadSnps
    \/ WriteFullCorrected
    \/ PfLoad
    \/ PfCorrect
    \/ PfWrite

Spec8 == Init8 /\ [][Next8]_vars

---------------------------------------------------------------------------
(* Properties of Phase 8 *)

\* The records of the parsable input files, pooled in command-line order
\* (qf reads a file from its second line on).
PooledRows ==
    LET read(f) == IF ~(f.exists /\ f.parsable) THEN <<>>
                   ELSE IF fdr_script = "qf" THEN Tail(f.lines) ELSE f.lines
    IN  ConcatFrames([n \in DOMAIN fdr_files |-> read(fdr_files[n])])

\* The family: the pooled records with a defined p-value.
Family == SelectSeq(PooledRows, LAMBDA r : ~IsNaN(r.p_empirical))

\* The Benjamini-Hochberg adjusted p-value of p in the family: the least of
\* min(1, m * p' / rank(p')) over the family's p' >= p, rank(p') being the
\* number of p-values of the family not above p'.
BHAdjusted(p) ==
    LET m == Len(Family)
        rank(x) == Cardinality({k \in DOMAIN Family : FracLeq(Family[k].p_empirical, x)})
        capped(x) == IF m * x[1] > rank(x) * x[2] THEN <<1, 1>>
                     ELSE <<m * x[1], rank(x) * x[2]>>
        cands == {capped(Family[k].p_empirical) :
                      k \in {j \in DOMAIN Family : FracLeq(p, Family[j].p_empirical)}}
    IN  CHOOSE f \in cands : \A g \in cands : FracLeq(f, g)

SameValue(a, b) == ~IsNaN(a) /\ ~IsNaN(b) /\ a[1] * b[2] = b[1] * a[2]

\* A q-value strictly below the threshold.
StrictlyBelow(q, thr) == ~IsNaN(q) /\ FracLess(q, thr)

\* C15 (as claimed): the full table holds one row per record of the family,
\* its q-value the Benjamini-Hochberg adjusted p-value over the family, and
\* q-values do not decrease as p-values increase.
C15_BenjaminiHochberg ==
    full_table # <<>> =>
        /\ \A k \in DOMAIN Family :
               Cardinality({n \in DOMAIN full_table[1] :
                               /\ full_table[1][n].variant_id = Family[k].variant_id
                               /\ full_table[1][n].feature_id = Family[k].feature_id
                               /\ SameValue(full_table[1][n].q_value,
                                            BHAdjusted(Family[k].p_empirical))}) = 1
        /\ \A a, b \in DOMAIN full_table[1] :
               (/\ ~IsNaN(full_table[1][a].p_empirical)
                /\ ~IsNaN(full_table[1][b].p_empirical)
                /\ FracLeq(full_table[1][a].p_empirical, full_table[1][b].p_empirical))
                   => /\ ~IsNaN(full_table[1][a].q_value)
                      /\ ~IsNaN(full_table[1][b].q_value)
                      /\ FracLeq(full_table[1][a].q_value, full_table[1][b].q_value)

\* C16 (as claimed): a row of the full table is flagged significant exactly
\* when its q-value is strictly below the configured threshold, and the
\* rows of the significant / lead table are rows with such a q-value.
C16_StrictSignificanceGate ==
    (full_table # <<>> /\ lead_table # <<>>) =>
        /\ \A n \in DOMAIN full_table[1] :
               full_table[1][n].significant
                   <=> StrictlyBelow(full_table[1][n].q_value, fdr_threshold)
        /\ \A n \in DOMAIN lead_table[1] :
               StrictlyBelow(lead_table[1][n].q_value, fdr_threshold)

\* The rows of the corrected table that pass the gate as claimed.
PassingRows ==
    SelectSeq(df_combined[1], LAMBDA r : StrictlyBelow(r.q_value, fdr_threshold))

\* The lead table holds one row per feature of `rows`, a row of `rows` with
\* the feature's least p-value, and no other row.
LeadOf(rows) ==
    /\ {lead_table[1][n].feature_id : n \in DOMAIN lead_table[1]}
           = {rows[k].feature_id : k \in DOMAIN rows}
    /\ \A a, b \in DOMAIN lead_table[1] :
           a # b => lead_table[1][a].feature_id # lead_table[1][b].feature_id
    /\ \A n \in DOMAIN lead_table[1] :
           /\ \E k \in DOMAIN rows : rows[k].variant_id = lead_table[1][n].variant_id
                                     /\ rows[k].feature_id = lead_table[1][n].feature_id
                                     /\ rows[k].p_empirical = lead_table[1][n].p_empirical
           /\ \A k \in DOMAIN rows :
                  rows[k].feature_id = lead_table[1][n].feature_id
                      => FracLeq(lead_table[1][n].p_empirical, rows[k].p_empirical)

\* C17 (as claimed): the lead table holds exactly one row for each feature
\* with a row passing the gate (q-value strictly below the threshold), the
\* passing row of least p-value, and no row of any other feature.
C17_LeadVariantPerFeature ==
    lead_table # <<>> => LeadOf(PassingRows)

\* C18 (as claimed): a run that loaded no record ends with a non-zero exit
\* code and writes neither table; a run with unparsable and parsable files
\* reports each unparsable one and corrects over the records of the rest.
C18_FailurePolicy ==
    pc8 = "done" =>
        /\ PooledRows = <<>> =>
               /\ fdr_exit # <<0>>
               /\ lead_table = <<>>
               /\ full_table = <<>>
        /\ (/\ \E n \in DOMAIN fdr_files : ~(fdr_files[n].exists /\ fdr_files[n].parsable)
            /\ Family # <<>>) =>
               /\ Len(fdr_stderr) >= Cardinality({n \in DOMAIN fdr_files :
                                        ~(fdr_files[n].exists /\ fdr_files[n].parsable)})
               /\ full_table # <<>>
               /\ Len(full_table[1]) = Len(Family)
               /\ fdr_exit = <<0>>

---------------------------------------------------------------------------
(* The Covariate Merger: load_and_merge_covariates of                      *)
(* normalize_and_covariate_phase6.py ("v1"), run_normalization_and_merge   *)
(* of normalize_and_covariate_phase6_v2.py ("v2") and                      *)
(* prepare_aeiqtl_matrices.py ("aeiqtl").  A frame is its set of           *)
(* individuals (ids), its set of columns (cols) and its cells (val); every *)
(* source file holds one column, named after the source.  Covariate values *)
(* are non-zero integers, so that an imputed 0 is recognisable.            *)

\* The individuals of the covariate files; I3 is in no phenotype matrix.
People == {"I1", "I2", "I3"}

\* The covariate sources each script loads, in its order.
Sources(scr) ==
    IF scr = "v1" THEN <<"aei", "pc", "peer", "prop">> ELSE <<"aei", "pc", "peer">>

\* The tables a covariate file may hold: individual -> value.
CovariateTables ==
    {("I1" :> 1) @@ ("I2" :> 2) @@ ("I3" :> 1),
     ("I1" :> 1) @@ ("I2" :> 1),
     ("I1" :> 2) @@ ("I3" :> NA),
     ("I2" :> NA)}

\* A file that cannot be loaded.
UnreadableCovariates == [readable |-> FALSE, table |-> <<>>]

CovariateFiles ==
    {UnreadableCovariates} \cup {[readable |-> TRUE, table |-> t] : t \in CovariateTables}

\* pd.read_csv(file, sep='\t', index_col=...) of the file of source src.
ReadCovariates(src, f) ==
    [ids |-> DOMAIN f.table, cols |-> {src},
     val |-> [c \in (DOMAIN f.table) \X {src} |-> f.table[c[1]]]]

\* pd.DataFrame().
EmptyFrame == [ids |-> {}, cols |-> {}, val |-> <<>>]

\* The frame restricted to the individuals in keep and the columns in cols.
Restrict(fr, keep, cols) ==
    [ids |-> fr.ids \cap keep, cols |-> fr.cols \cap cols,
     val |-> [c \in (fr.ids \cap keep) \X (fr.cols \cap cols) |-> fr.val[c]]]

\* df.filter(items=individual_ids, axis=0).
FilterItems(fr, ids) == Restrict(fr, ids, fr.cols)

\* df.dropna(axis=1, how='all'): columns without any value are dropped.
DropAllNaColumns(fr) ==
    Restrict(fr, fr.ids, {c \in fr.cols : \E p \in fr.ids : fr.val[<<p, c>>] # NA})

\* The cell of individual p and column c in the frames that hold column c.
CellOf(frames, p, c) ==
    LET holder == CHOOSE n \in DOMAIN frames : c \in frames[n].cols
    IN  IF p \in frames[holder].ids THEN frames[holder].val[<<p, c>>] ELSE NA

\* The frame over the individuals ids with all columns of the frames.
Aligned(frames, ids) ==
    LET cols == UNION {frames[n].cols : n \in DOMAIN frames}
    IN  [ids |-> ids, cols |-> cols,
         val |-> [c \in ids \X cols |-> CellOf(frames, c[1], c[2])]]

\* pd.concat(frames, axis=1, join='inner'): the individuals of all frames.
ConcatInner(frames) ==
    Aligned(frames, {p \in People : \A n \in DOMAIN frames : p \in frames[n].ids})

\* The join taken as an inner join.
ConcatOuter_Inner(frames) == ConcatInner(frames)

\* pd.concat(frames, axis=1): the individuals of any frame, NaN where a
\* frame lacks the individual.
ConcatOuter(frames) ==
    Aligned(frames, UNION {frames[n].ids : n \in DOMAIN frames})

\* df.fillna(0).
FillNa0(fr) ==
    [ids |-> fr.ids, cols |-> fr.cols,
     val |-> [c \in fr.ids \X fr.cols |-> IF fr.val[c] = NA THEN 0 ELSE fr.val[c]]]

\* df.loc[:, df.nunique() > 1]: columns with one distinct value (or none)
\* are dropped.
DropConstantColumns(fr) ==
    Restrict(fr, fr.ids,
             {c \in fr.cols : Cardinality({fr.val[<<p, c>>] : p \in fr.ids} \ {NA}) > 1})

\* DataFrame.empty: no row or no column.
IsEmptyFrame(fr) == fr.ids = {} \/ fr.cols = {}

MsgCovWarning == "WARNING: Could not load covariate file. Skipping."

MsgCovFatalAEI == "FATAL ERROR loading AEI covariates"

MsgCovEmptyMatrix == "WARNING: failed to load. Using empty matrix."

MsgNoCovariates == "FATAL ERROR: No valid covariates were loaded. Cannot proceed."

MsgIndexMismatch == "WARNING: Covariate matrix indices do not fully match feature matrix columns."

MsgFailedMatrix == "Failed to create covariate matrix. Exiting."

\* The individuals of the phenotype matrix: the columns of the Phase 5
\* matrix, or (aeiqtl) the individuals of the AEI matrix.
PhenotypeIndividuals(scr, files) ==
    IF scr = "aeiqtl"
    THEN {IF files["aei"].readable THEN DOMAIN files["aei"].table ELSE {}}
    ELSE {{"I1", "I2"}, {"I1"}}

InitCov ==
    /\ Phase5Idle
    /\ Phase6Idle
    /\ Phase8Idle
    /\ LateIdle
    /\ cov_script \in {"v1", "v2", "aeiqtl"}
    /\ cov_files \in [Range(Sources(cov_script)) -> CovariateFiles]
    /\ individual_ids \in PhenotypeIndividuals(cov_script, cov_files)
    /\ cov_k = 1
    /\ covariates = <<>>
    /\ covariate_matrix = <<>>
    /\ cov_output = <<>>
    /\ covariate_file = <<>>
    /\ phenotype_file = <<>>
    /\ cov_stderr = <<>>
    /\ cov_exit = <<>>
    /\ pcC = "load"

\* The load of one covariate source (a try / except block of its own).
\*  v1: a file that fails to load is reported and skipped; the PC, PEER and
\*      cell-proportion frames are filtered to the phenotype's individuals,
\*      the AEI frame is not.
\*  v2: a failing AEI file ends the process with exit code 1; the other
\*      sources are skipped when they fail (the warning goes to stdout).
\*  aeiqtl: the AEI matrix is the phenotype (exit 1 when it fails); a
\*      failing PC or PEER file counts as an empty frame.
LoadCovariate ==
    /\ pcC = "load"
    /\ cov_k <= Len(Sources(cov_script))
    /\ LET src == Sources(cov_script)[cov_k]
           f == cov_files[src]
           fatal == ~f.readable /\ src = "aei" /\ cov_script # "v1"
       IN  /\ covariates' =
                  IF f.readable
                  THEN CASE cov_script = "v1" ->
                                Append(covariates,
                                       IF src = "aei" THEN ReadCovariates(src, f)
                                       ELSE FilterItems(ReadCovariates(src, f), individual_ids))
                         [] cov_script = "v2" ->
                                Append(covariates,
                                       IF src = "aei" THEN DropAllNaColumns(ReadCovariates(src, f))
                                       ELSE ReadCovariates(src, f))
                         [] OTHER ->
                                IF src = "aei" THEN covariates
                                ELSE Append(covariates, ReadCovariates(src, f))
                  ELSE IF cov_script = "aeiqtl" /\ src # "aei"
                       THEN Append(covariates, EmptyFrame)
                       ELSE covariates
           /\ cov_stderr' =
                  IF f.readable THEN cov_stderr
                  ELSE CASE fatal -> Append(cov_stderr, MsgCovFatalAEI)
                         [] cov_script = "v1" -> Append(cov_stderr, MsgCovWarning)
                         [] cov_script = "aeiqtl" -> Append(cov_stderr, MsgCovEmptyMatrix)
                         [] OTHER -> cov_stderr
           /\ cov_exit' = IF fatal THEN <<1>> ELSE cov_exit
           /\ pcC' = IF fatal THEN "done"
                     ELSE IF cov_k = Len(Sources(cov_script)) THEN "merge" ELSE "load"
    /\ cov_k' = cov_k + 1
    /\ UNCHANGED <<cov_script, individual_ids, cov_files, covariate_matrix, cov_output,
                   covariate_file, phenotype_file>>
    /\ UNCHANGED <<vars5, vars6, vars8, varsLate>>

\* v1: the inner join of the loaded frames; without any, an empty frame.
MergeInner ==
    /\ pcC = "merge"
    /\ cov_script = "v1"
    /\ IF covariates = <<>>
       THEN /\ covariate_matrix' = <<EmptyFrame>>
            /\ cov_stderr' = Append(cov_stderr, MsgNoCovariates)
       ELSE /\ covariate_matrix' = <<ConcatInner(covariates)>>
            /\ cov_stderr' = IF ConcatInner(covariates).ids \subseteq individual_ids
                             THEN cov_stderr
                             ELSE Append(cov_stderr, MsgIndexMismatch)
    /\ pcC' = "save"
    /\ UNCHANGED <<cov_script, individual_ids, cov_files, cov_k, covariates,
                   cov_output, covariate_file, phenotype_file, cov_exit>>
    /\ UNCHANGED <<vars5, vars6, vars8, varsLate>>

\* v2: the outer join, restricted to the phenotype's individuals, missing
\* values set to 0, constant columns dropped.
MergeOuter ==
    /\ pcC = "merge"
    /\ cov_script = "v2"
    /\ LET merged == ConcatOuter(covariates)
           individuals == individual_ids \cap merged.ids
       IN  covariate_matrix' =
               <<DropConstantColumns(FillNa0(Restrict(merged, individuals, merged.cols)))>>
    /\ pcC' = "save"
    /\ UNCHANGED <<cov_script, individual_ids, cov_files, cov_k, covariates,
                   cov_output, covariate_file, phenotype_file, cov_stderr, cov_exit>>
    /\ UNCHANGED <<vars5, vars6, vars8, varsLate>>

\* aeiqtl: the individuals common to the AEI phenotype, the PCs and the PEER
\* factors; the outer join of PCs and PEER factors restricted to them,
\* missing values set to 0, constant columns dropped.
MergeCommon ==
    /\ pcC = "merge"
    /\ cov_script = "aeiqtl"
    /\ LET individuals == (individual_ids \cap covariates[1].ids) \cap covariates[2].ids
           merged == ConcatOuter(covariates)
       IN  covariate_matrix' =
               <<DropConstantColumns(FillNa0(Restrict(merged, individuals, merged.cols)))>>
    /\ pcC' = "save"
    /\ UNCHANGED <<cov_script, individual_ids, cov_files, cov_k, covariates,
                   cov_output, covariate_file, phenotype_file, cov_stderr, cov_exit>>
    /\ UNCHANGED <<vars5, vars6, vars8, varsLate>>

\* The layout of the covariate file to_csv writes: v1 writes the transposed
\* matrix (final_covariate_matrix.T, index CovariateID); v2 and aeiqtl write
\* the matrix as merged, one row per individual (index individual_id).
WrittenCovariates(scr, fr) ==
    IF scr = "v1"
    THEN [index_name |-> "CovariateID", rows |-> fr.cols, columns |-> fr.ids]
    ELSE [index_name |-> "individual_id", rows |-> fr.ids, columns |-> fr.cols]

\* The layout of the phenotype file, one column per individual: v1 writes
\* the normalized matrix of all the input's individuals, v2 and aeiqtl the
\* matrix restricted to the individuals of the covariate matrix.
WrittenPhenotype(scr, ids, fr) ==
    [index_name |-> IF scr = "v1" THEN "FeatureID" ELSE "feature_id",
     columns |-> IF scr = "v1" THEN ids ELSE fr.ids]

\* The phenotype and covariate matrices are written; v1 writes neither
\* when the covariate matrix is empty.
SaveCovariates ==
    /\ pcC = "save"
    /\ IF cov_script = "v1" /\ IsEmptyFrame(covariate_matrix[1])
       THEN /\ cov_stderr' = Append(cov_stderr, MsgFailedMatrix)
            /\ UNCHANGED <<cov_output, covariate_file, phenotype_file>>
       ELSE /\ cov_output' = covariate_matrix
            /\ covariate_file' = <<WrittenCovariates(cov_script, covariate_matrix[1])>>
            /\ phenotype_file' =
                   <<WrittenPhenotype(cov_script, individual_ids, covariate_matrix[1])>>
            /\ UNCHANGED cov_stderr
    /\ cov_exit' = <<0>>
    /\ pcC' = "done"
    /\ UNCHANGED <<cov_script, individual_ids, cov_files, cov_k, covariates,
                   covariate_matrix>>
    /\ UNCHANGED <<vars5, vars6, vars8, varsLate>>

NextCov ==
    \/ LoadCovariate
    \/ MergeInner
    \/ MergeOuter
    \/ MergeCommon
    \/ SaveCovariates

SpecCov == InitCov /\ [][NextCov]_vars

---------------------------------------------------------------------------
(* Properties of the Covariate Merger *)

\* The sources of the run whose file loaded.
LoadedSources == {src \in Range(Sources(cov_script)) : cov_files[src].readable}

\* C19 (as claimed): every individual of the written covariate matrix is
\* an individual of the phenotype matrix.
C19_IndividualsOfPhenotype ==
    cov_output # <<>> => cov_output[1].ids \subseteq individual_ids

\* C20: an inner-join merger (v1, aeiqtl) keeps an individual only if every
\* loaded source holds it, with the sources' values; the union merger (v2)
\* keeps every individual of the phenotype that some loaded source holds,
\* and each cell of its matrix is the source's value, or 0 where the
\* source has none for the individual.
C20_JoinDiscipline ==
    cov_output # <<>> =>
        LET out == cov_output[1]
            merged == LoadedSources \ (IF cov_script = "aeiqtl" THEN {"aei"} ELSE {})
        IN  /\ out.cols \subseteq merged
            /\ cov_script \in {"v1", "aeiqtl"} =>
                   \A p \in out.ids : \A src \in LoadedSources : p \in DOMAIN cov_files[src].table
            /\ cov_script = "v1" =>
                   \A p \in out.ids, c \in out.cols :
                       out.val[<<p, c>>] = cov_files[c].table[p]
            /\ cov_script = "v2" =>
                   /\ out.ids = {p \in individual_ids :
                                    \E src \in LoadedSources : p \in DOMAIN cov_files[src].table}
                   /\ \A p \in out.ids, c \in out.cols :
                          out.val[<<p, c>>] =
                              IF p \in DOMAIN cov_files[c].table /\ cov_files[c].table[p] # NA
                              THEN cov_files[c].table[p] ELSE 0

\* C20 witness: the union merger wrote a matrix in which an individual that
\* one loaded source lacks has the value 0 in that source's column, next to
\* another source's value.
C20_Witness ==
    /\ cov_script = "v2"
    /\ cov_output # <<>>
    /\ \E p \in cov_output[1].ids, c, d \in cov_output[1].cols :
           /\ p \notin DOMAIN cov_files[c].table
           /\ cov_output[1].val[<<p, c>>] = 0
           /\ p \in DOMAIN cov_files[d].table
           /\ cov_output[1].val[<<p, d>>] = cov_files[d].table[p]
           /\ cov_output[1].val[<<p, d>>] # 0

\* The values of column c of the written matrix over its individuals,
\* missing values apart.
ColumnValues(fr, c) == {fr.val[<<p, c>>] : p \in fr.ids} \ {NA}

\* The values source src gives the individuals ids in the merged matrix:
\* the file's value, or (v2, aeiqtl: fillna(0)) 0 where it has none.
MergedValues(src, ids) ==
    {IF p \in DOMAIN cov_files[src].table /\ cov_files[src].table[p] # NA
     THEN cov_files[src].table[p]
     ELSE IF cov_script = "v1" THEN NA ELSE 0 : p \in ids} \ {NA}

\* C21 (as claimed): no covariate of a written matrix has a single distinct
\* value over the retained individuals, and every merged covariate with two
\* or more distinct values is in the matrix.
C21_ZeroVariancePruned ==
    cov_output # <<>> =>
        /\ \A c \in cov_output[1].cols :
               Cardinality(ColumnValues(cov_output[1], c)) > 1
        /\ \A src \in LoadedSources \ (IF cov_script = "aeiqtl" THEN {"aei"} ELSE {}) :
               Cardinality(MergedValues(src, cov_output[1].ids)) > 1
                   => src \in cov_output[1].cols

\* C22 (as claimed): the written covariate file has one row per covariate
\* and one column per individual.
C22_CovariatesAsRows ==
    covariate_file # <<>> =>
        /\ covariate_file[1].rows = cov_output[1].cols
        /\ covariate_file[1].columns = cov_output[1].ids
        /\ covariate_file[1].rows \cap People = {}

\* C30 (as claimed): when both files are written, the phenotype file and
\* the covariate file cover the same individuals.
C30_SameIndividuals ==
    (phenotype_file # <<>> /\ covariate_file # <<>>) =>
        phenotype_file[1].columns = cov_output[1].ids

---------------------------------------------------------------------------
(* Phase 3: run_phase3_individual_processing_v4/v5 (one individual's raw
   calls) and run_phase3_master_discovery_v2/v3 (the cohort's raw calls).
   A raw call file is [tool, cell, readable, rows]; cell is the cell type
   of the file name (the sample of a master discovery file). An edit level
   is the fraction <<variant reads, total reads>>. *)

\* None of the stages modelled above runs.
EarlyIdle ==
    /\ Phase5Idle
    /\ Phase6Idle
    /\ Phase8Idle
    /\ CovIdle

\* --min_edit_level, default 0.1.
MinEditLevel == <<1, 10>>

RedmlRow(pos, ref, alt, vr, tr) ==
    [Chr |-> "1", Pos |-> pos, Ref |-> ref, Alt |-> alt,
     VariantReads |-> vr, TotalReads |-> tr]

ReditoolsRow(pos, ref, subs, freq) ==
    [Chr |-> "1", Pos |-> pos, Reference |-> ref, AllSubs |-> subs,
     Frequency |-> freq]

\* AllSubs after split(' '): each substitution is its characters.
Sub(ref, alt) == <<ref, ">", alt>>
Dash == << <<"-">> >>

\* The RED-ML tables a file may hold.
RedmlTables ==
    { << RedmlRow("1000", "A", "G", 1, 2) >>,
      << RedmlRow("1000", "A", "G", 1, 2), RedmlRow("1000", "A", "C", 1, 2),
         RedmlRow("2000", "T", "C", 1, 20) >>,
      << RedmlRow("2000", "T", "C", 1, 2), RedmlRow("1000", "A", "G", 0, 0) >> }

\* The REDItools tables a file may hold.
ReditoolsTables ==
    { << ReditoolsRow("1000", "A", <<Sub("A", "G")>>, <<1, 2>>) >>,
      << ReditoolsRow("1000", "A", <<Sub("A", "G"), Sub("A", "C")>>, <<1, 2>>),
         ReditoolsRow("2000", "T", <<Sub("T", "C")>>, <<1, 20>>) >>,
      << ReditoolsRow("2000", "T", <<Sub("T", "C")>>, <<1, 2>>),
         ReditoolsRow("1000", "A", Dash, <<1, 2>>) >>,
      << ReditoolsRow("1000", "A", Dash, <<0, 1>>) >> }

\* What sits in the place of one raw call file: nothing, a file read_csv
\* cannot parse, or a file holding one of the tables.
RawFileContents(tool) ==
    {[present |-> FALSE, readable |-> FALSE, rows |-> <<>>],
     [present |-> TRUE, readable |-> FALSE, rows |-> <<>>]}
    \cup {[present |-> TRUE, readable |-> TRUE, rows |-> t] :
            t \in IF tool = "REDML" THEN RedmlTables ELSE ReditoolsTables}

\* The places the glob looks at, RED-ML files first.
RawFileSlots ==
    << [tool |-> "REDML", cell |-> "B"], [tool |-> "REDML", cell |-> "T"],
       [tool |-> "REDItools", cell |-> "B"], [tool |-> "REDItools", cell |-> "T"] >>

\* glob.glob: the files that exist.
GlobRawFiles(contents) ==
    LET all == [k \in 1..Len(RawFileSlots) |->
                  [tool |-> RawFileSlots[k].tool, cell |-> RawFileSlots[k].cell,
                   present |-> contents[k].present,
                   readable |-> contents[k].readable, rows |-> contents[k].rows]]
    IN  SelectSeq(all, LAMBDA f : f.present)

IsMaster(scr) == scr \in {"master_v2", "master_v3"}

\* df['EditLevel'] >= min_edit_level
PassesEditLevel(level) == level[1] * MinEditLevel[2] >= MinEditLevel[1] * level[2]

\* ((Ref == 'A') & (Alt == 'G')) | ((Ref == 'T') & (Alt == 'C'))
IsCanonical_Any(ref, alt) == TRUE

IsCanonical(ref, alt) ==
    \/ (ref = "A" /\ alt = "G")
    \/ (ref = "T" /\ alt = "C")

\* Chr:Pos:Ref>Alt
SiteID(chr, pos, ref, alt) == chr \o ":" \o pos \o ":" \o ref \o ">" \o alt

\* One loaded call. CellType holds the SampleID in master discovery.
Call(chr, pos, ref, alt, tool, cell, level) ==
    [SiteID |-> SiteID(chr, pos, ref, alt), Chr |-> chr, Pos |-> pos,
     Ref |-> ref, Alt |-> alt, Tool |-> tool, CellType |-> cell,
     EditLevel |-> level]

\* The RED-ML branch: EditLevel = VariantReads / TotalReads with zero
\* totals dropped, then the edit-level filter.
LoadRedml(f) ==
    LET kept == SelectSeq(f.rows, LAMBDA r :
                    /\ r.TotalReads # 0
                    /\ PassesEditLevel(<<r.VariantReads, r.TotalReads>>))
    IN  [k \in 1..Len(kept) |->
            Call(kept[k].Chr, kept[k].Pos, kept[k].Ref, kept[k].Alt, "REDML",
                 f.cell, <<kept[k].VariantReads, kept[k].TotalReads>>)]

\* len(sub) == 3 and sub[1] == '>'
IsValidSub(sub) == Len(sub) = 3 /\ sub[2] = ">"

ValidSubs(row) ==
    IF row.AllSubs = Dash THEN <<>> ELSE SelectSeq(row.AllSubs, IsValidSub)

\* explode_reditools_substitutions reads row['Reference'] and
\* row['Frequency'] for every valid substitution: a KeyError when the frame
\* it is given has no such column.
ExplodeRaises(columns, rows) ==
    /\ \E k \in 1..Len(rows) : ValidSubs(rows[k]) # <<>>
    /\ ~ ({"Reference", "Frequency"} \subseteq columns)

RECURSIVE ExplodeRows(_, _, _)
ExplodeRows(rows, tool, cell) ==
    IF rows = <<>> THEN <<>>
    ELSE LET row == Head(rows)
             subs == ValidSubs(row)
         IN  [k \in 1..Len(subs) |->
                 Call(row.Chr, row.Pos, row.Reference, subs[k][3], tool, cell,
                      row.Frequency)]
             \o ExplodeRows(Tail(rows), tool, cell)

\* The columns of the frame explode_reditools_substitutions is called with:
\* the aggregators rename Reference and Frequency first, master discovery
\* v3 does not.
ExplodeColumns(scr) ==
    IF scr = "master_v3"
    THEN {"Chr", "Pos", "Reference", "AllSubs", "Frequency"}
    ELSE {"Chr", "Pos", "Ref", "AllSubs", "EditLevel"}

\* The outcome of one pass of the file loop: the frame appended ("frame"),
\* the file left out silently ("skip"), or the exception reported ("raise").
Loaded(fr) == [outcome |-> "frame", frame |-> fr]
Skipped == [outcome |-> "skip", frame |-> <<>>]
Raised == [outcome |-> "raise", frame |-> <<>>]

CanonicalCalls(fr) == SelectSeq(fr, LAMBDA c : IsCanonical(c.Ref, c.Alt))

LevelCalls(fr) == SelectSeq(fr, LAMBDA c : PassesEditLevel(c.EditLevel))

LoadRawFile(scr, f) ==
    IF ~f.readable THEN Raised
    ELSE IF f.tool = "REDML"
    THEN IF IsMaster(scr) THEN Loaded(LoadRedml(f))
         ELSE Loaded(CanonicalCalls(LoadRedml(f)))
    ELSE IF scr = "master_v2"
    THEN Loaded(LevelCalls(ExplodeRows(f.rows, f.tool, f.cell)))
    ELSE IF ExplodeRaises(ExplodeColumns(scr), f.rows) THEN Raised
    ELSE LET exploded == ExplodeRows(f.rows, f.tool, f.cell)
         IN  IF scr = "master_v3"
             THEN IF exploded = <<>> THEN Raised
                  ELSE Loaded(LevelCalls(exploded))
             ELSE IF exploded = <<>> THEN Skipped
                  ELSE Loaded(CanonicalCalls(LevelCalls(exploded)))

MsgNoRawFiles == "No raw call files found"
MsgFailedFile == "Warning: Failed to process file"
MsgNoValidCalls == "No valid data loaded after filtering"
MsgNoConsensus == "No consensus sites found for this individual. Skipping output."
MsgDuplicateEntries == "Index contains duplicate entries, cannot reshape"

Init3 ==
    /\ EarlyIdle
    /\ AnnotIdle
    /\ Phase4Idle
    /\ RetryIdle
    /\ p3_script \in {"v4", "v5", "master_v2", "master_v3"}
    /\ \E c1 \in RawFileContents("REDML"), c2 \in RawFileContents("REDML"),
          c3 \in RawFileContents("REDItools"), c4 \in RawFileContents("REDItools") :
           raw_files = GlobRawFiles(<<c1, c2, c3, c4>>)
    /\ p3_f = 1
    /\ raw_df_list = <<>>
    /\ raw_df = <<>>
    /\ p3_output = <<>>
    /\ p3_stderr = <<>>
    /\ p3_exit = <<>>
    /\ pc3 = "glob"

\* The glob and its check: an aggregator needs a file, master discovery a
\* file of each tool.
GlobRawCalls ==
    /\ pc3 = "glob"
    /\ LET missing ==
               IF IsMaster(p3_script)
               THEN \E t \in {"REDML", "REDItools"} :
                        \A k \in 1..Len(raw_files) : raw_files[k].tool # t
               ELSE raw_files = <<>>
       IN  IF missing
           THEN /\ p3_stderr' = Append(p3_stderr, MsgNoRawFiles)
                /\ p3_exit' = <<1>>
                /\ pc3' = "done"
           ELSE /\ pc3' = "load"
                /\ UNCHANGED <<p3_stderr, p3_exit>>
    /\ UNCHANGED <<p3_script, raw_files, p3_f, raw_df_list, raw_df, p3_output>>
    /\ UNCHANGED others3

\* One pass of the file loop.
LoadRawCalls ==
    /\ pc3 = "load"
    /\ p3_f <= Len(raw_files)
    /\ LET res == LoadRawFile(p3_script, raw_files[p3_f])
       IN  /\ raw_df_list' = IF res.outcome = "frame"
                             THEN Append(raw_df_list, res.frame)
                             ELSE raw_df_list
           /\ p3_stderr' = IF res.outcome = "raise"
                           THEN Append(p3_stderr, MsgFailedFile)
                           ELSE p3_stderr
    /\ p3_f' = p3_f + 1
    /\ UNCHANGED <<p3_script, raw_files, raw_df, p3_output, p3_exit, pc3>>
    /\ UNCHANGED others3

RECURSIVE Concat(_)
Concat(frames) ==
    IF frames = <<>> THEN <<>> ELSE Head(frames) \o Concat(Tail(frames))

\* After the loop: no frame at all is fatal, else the frames are concatenated.
CombineRawCalls ==
    /\ pc3 = "load"
    /\ p3_f > Len(raw_files)
    /\ IF raw_df_list = <<>>
       THEN /\ p3_stderr' = Append(p3_stderr, MsgNoValidCalls)
            /\ p3_exit' = <<1>>
            /\ pc3' = "done"
            /\ UNCHANGED raw_df
       ELSE /\ raw_df' = Concat(raw_df_list)
            /\ pc3' = "consensus"
            /\ UNCHANGED <<p3_stderr, p3_exit>>
    /\ UNCHANGED <<p3_script, raw_files, p3_f, raw_df_list, p3_output>>
    /\ UNCHANGED others3

\* groupby('SiteID')['Tool'].nunique() == 2
ConsensusSites(fr) ==
    {fr[k].SiteID : k \in {j \in 1..Len(fr) :
        Cardinality({fr[m].Tool : m \in {n \in 1..Len(fr) : fr[n].SiteID = fr[j].SiteID}}) = 2}}

InConsensus(fr) ==
    LET sites == ConsensusSites(fr)
    IN  SelectSeq(fr, LAMBDA c : c.SiteID \in sites)

\* pivot(index='SiteID', columns='CellType') cannot reshape a frame that
\* holds two calls of one site in one cell type.
HasDuplicateEntries(fr) ==
    \E j, k \in 1..Len(fr) :
        j # k /\ fr[j].SiteID = fr[k].SiteID /\ fr[j].CellType = fr[k].CellType

\* The pivoted matrix with fillna(0), under the three annotation columns.
PivotMatrix(fr) ==
    LET sites == {fr[k].SiteID : k \in 1..Len(fr)}
        cells == {fr[k].CellType : k \in 1..Len(fr)}
    IN  [rows |-> sites,
         columns |-> cells,
         val |-> [sc \in sites \X cells |->
                    IF \E k \in 1..Len(fr) : fr[k].SiteID = sc[1] /\ fr[k].CellType = sc[2]
                    THEN (CHOOSE c \in Range(fr) : c.SiteID = sc[1] /\ c.CellType = sc[2]).EditLevel
                    ELSE <<0, 1>>]]

\* run_individual_processing after the load: consensus, pivot, write.
RunIndividualProcessing ==
    /\ pc3 = "consensus"
    /\ ~IsMaster(p3_script)
    /\ LET consensus_df == InConsensus(raw_df)
       IN  IF consensus_df = <<>>
           THEN /\ p3_stderr' = Append(p3_stderr, MsgNoConsensus)
                /\ p3_exit' = <<0>>
                /\ UNCHANGED p3_output
           ELSE IF HasDuplicateEntries(consensus_df)
           THEN /\ p3_stderr' = Append(p3_stderr, MsgDuplicateEntries)
                /\ p3_exit' = <<1>>
                /\ UNCHANGED p3_output
           ELSE /\ p3_output' = <<PivotMatrix(consensus_df)>>
                /\ p3_exit' = <<0>>
                /\ UNCHANGED p3_stderr
    /\ pc3' = "done"
    /\ UNCHANGED <<p3_script, raw_files, p3_f, raw_df_list, raw_df>>
    /\ UNCHANGED others3

\* run_master_discovery after the load: canonical filter, project-wide
\* consensus, the distinct sites written.
RunMasterDiscovery ==
    /\ pc3 = "consensus"
    /\ IsMaster(p3_script)
    /\ LET final_master_df == InConsensus(CanonicalCalls(raw_df))
       IN  p3_output' = <<[rows |-> {final_master_df[k].SiteID :
                                        k \in 1..Len(final_master_df)},
                           columns |-> {},
                           val |-> << >>]>>
    /\ p3_exit' = <<0>>
    /\ pc3' = "done"
    /\ UNCHANGED <<p3_script, raw_files, p3_f, raw_df_list, raw_df, p3_stderr>>
    /\ UNCHANGED others3

Next3 ==
    \/ GlobRawCalls
    \/ LoadRawCalls
    \/ CombineRawCalls
    \/ RunIndividualProcessing
    \/ RunMasterDiscovery

Spec3 == Init3 /\ [][Next3]_vars

\* ---- Properties of Phase 3 ----

\* The calls a readable file holds, as the format of its tool states them.
CallsOf(f) ==
    IF ~f.readable THEN {}
    ELSE IF f.tool = "REDML"
    THEN {[site |-> SiteID(r.Chr, r.Pos, r.Ref, r.Alt), ref |-> r.Ref, alt |-> r.Alt,
           level |-> <<r.VariantReads, r.TotalReads>>] :
             r \in {x \in Range(f.rows) : x.TotalReads # 0}}
    ELSE UNION {{[site |-> SiteID(r.Chr, r.Pos, r.Reference, sub[3]),
                  ref |-> r.Reference, alt |-> sub[3], level |-> r.Frequency] :
                    sub \in {x \in Range(r.AllSubs) : Len(x) = 3}} :
                r \in Range(f.rows)}

CanonicalPairs == {<<"A", "G">>, <<"T", "C">>}

\* The sites tool t observed: canonical calls at or above the minimum edit
\* level, in any file of the scope.
ObservedBy(t) ==
    UNION {{c.site : c \in {x \in CallsOf(raw_files[k]) :
                               /\ <<x.ref, x.alt>> \in CanonicalPairs
                               /\ x.level[1] * 10 >= x.level[2]}} :
           k \in {j \in 1..Len(raw_files) : raw_files[j].tool = t}}

ObservedByBoth == ObservedBy("REDML") \cap ObservedBy("REDItools")

OutputSites == IF p3_output = <<>> THEN {} ELSE p3_output[1].rows

\* C23 (as claimed): once the stage has ended, a site is in the consensus
\* output if and only if both tools observed it within the scope.
C23_ConsensusIffBothTools ==
    pc3 = "done" => OutputSites = ObservedByBoth

\* The calls of site s at or above the minimum edit level in file f.
ReportsOf(f, s) ==
    {c \in CallsOf(f) : c.site = s /\ c.level[1] * 10 >= c.level[2]}

\* C24 (as claimed): when both tools report a site for the individual, the
\* aggregator completes, and its output holds exactly the sites both tools
\* report, each with the edit level of every file that reports it.
C24_ScenarioA ==
    (~IsMaster(p3_script) /\ pc3 = "done" /\ ObservedByBoth # {}) =>
        /\ p3_exit = <<0>>
        /\ p3_output # <<>>
        /\ p3_output[1].rows = ObservedByBoth
        /\ \A s \in ObservedByBoth : \A k \in 1..Len(raw_files) :
               \A c \in ReportsOf(raw_files[k], s) :
                   /\ raw_files[k].cell \in p3_output[1].columns
                   /\ p3_output[1].val[<<s, raw_files[k].cell>>] = c.level

\* The site identifiers of the canonical substitutions.
CanonicalSiteIDs ==
    {SiteID("1", pos, pair[1], pair[2]) :
        pos \in {"1000", "2000"}, pair \in CanonicalPairs}

\* C25: every call an aggregator keeps after its filters, and every site
\* of an aggregator's or of master discovery's output, is A>G or T>C, and
\* an output site is one both tools called canonically.
C25_CanonicalOnly ==
    /\ ~IsMaster(p3_script) =>
           \A j \in 1..Len(raw_df_list) : \A k \in 1..Len(raw_df_list[j]) :
               <<raw_df_list[j][k].Ref, raw_df_list[j][k].Alt>> \in CanonicalPairs
    /\ OutputSites \subseteq CanonicalSiteIDs
    /\ OutputSites \subseteq ObservedByBoth

\* A written output with a site in it, from input in which both tools call
\* one and the same non-canonical substitution at a passing edit level.
C25_Witness ==
    /\ pc3 = "done"
    /\ OutputSites # {}
    /\ \E j, k \in 1..Len(raw_files) :
           /\ raw_files[j].tool = "REDML"
           /\ raw_files[k].tool = "REDItools"
           /\ \E c \in CallsOf(raw_files[j]), d \in CallsOf(raw_files[k]) :
                  /\ c.site = d.site
                  /\ <<c.ref, c.alt>> \notin CanonicalPairs
                  /\ c.level[1] * 10 >= c.level[2]
                  /\ d.level[1] * 10 >= d.level[2]

---------------------------------------------------------------------------
(* The annotator of the per-individual aggregators: annotate_functional_region
   of v5 over the Ensembl GTF (load_gtf_features), and of v4 over the
   site-to-gene map. A line of the annotation source is
   [type, Start, End, Gene]; v4 reads a line as the map entry of position
   Start with FeatureType type and GeneSymbol Gene. *)

\* The feature types an annotation source lists here.
RawFeatureTypes ==
    {"CDS", "exon", "three_prime_utr", "five_prime_utr", "UTR", "gene"}

\* str.lower on the feature types.
Lower(type) == IF type = "CDS" THEN "cds" ELSE IF type = "UTR" THEN "utr" ELSE type

TARGET_FEATURES == {"exon", "UTR", "CDS"}

FEATURE_TYPES ==
    [t \in {"exon", "CDS", "five_prime_utr", "three_prime_utr"} |->
        IF t = "exon" THEN "Exon"
        ELSE IF t = "CDS" THEN "CDS"
        ELSE IF t = "five_prime_utr" THEN "UTR5" ELSE "UTR3"]

\* FEATURE_TYPES.get(feature_type.lower(), feature_type)
FeatureOf(type) ==
    IF Lower(type) \in DOMAIN FEATURE_TYPES THEN FEATURE_TYPES[Lower(type)] ELSE type

\* The lines an annotation source may hold, and the sources themselves.
GtfLines ==
    [type : RawFeatureTypes, Start : {1, 2}, End : {3}, Gene : {"G1", "G2"}]

GtfSources ==
    {<<>>} \cup {<<a>> : a \in GtfLines} \cup {<<a, b>> : a, b \in GtfLines}

\* sort_values(by=['Chr', 'Start']): a stable sort, ties keep file order.
RECURSIVE SortByStart(_)
SortByStart(df) ==
    IF df = <<>> THEN <<>>
    ELSE LET low == CHOOSE v \in {df[k].Start : k \in 1..Len(df)} :
                        \A k \in 1..Len(df) : v <= df[k].Start
         IN  SelectSeq(df, LAMBDA r : r.Start = low)
             \o SortByStart(SelectSeq(df, LAMBDA r : r.Start # low))

\* load_gtf_features: the exon, UTR, CDS and *_utr lines, renamed, sorted.
load_gtf_features(lines) ==
    LET kept == SelectSeq(lines, LAMBDA l :
                    l.type \in TARGET_FEATURES \/ EndsWith(l.type, "_utr"))
    IN  SortByStart([k \in 1..Len(kept) |->
            [Start |-> kept[k].Start, End |-> kept[k].End,
             Feature |-> FeatureOf(kept[k].type), Gene |-> kept[k].Gene]])

\* v4: the gene map as read, one row per line.
read_gene_map(lines) ==
    [k \in 1..Len(lines) |->
        [Start |-> lines[k].Start, End |-> lines[k].Start,
         Feature |-> lines[k].type, Gene |-> lines[k].Gene]]

Labelled(row) == [Functional_Region |-> row.Feature, Gene |-> row.Gene]

Intergenic == [Functional_Region |-> "Intergenic", Gene |-> "Intergenic"]

Unknown == [Functional_Region |-> "Unknown", Gene |-> "Unknown"]

\* v5 annotate_functional_region for one site.
annotate_v5(df, pos) ==
    LET overlapping_features == SelectSeq(df, LAMBDA r : r.Start <= pos /\ r.End >= pos)
        cds_features == SelectSeq(overlapping_features, LAMBDA r : r.Feature = "CDS")
        utr_features == SelectSeq(overlapping_features,
                                  LAMBDA r : r.Feature \in {"UTR5", "UTR3"})
        best_feature == IF \E k \in 1..Len(utr_features) : utr_features[k].Feature = "UTR3"
                        THEN "UTR3" ELSE "UTR5"
        exon_features == SelectSeq(overlapping_features, LAMBDA r : r.Feature = "Exon")
    IN  IF overlapping_features = <<>> THEN Intergenic
        ELSE IF cds_features # <<>> THEN Labelled(cds_features[1])
        ELSE IF utr_features # <<>>
        THEN Labelled(SelectSeq(utr_features, LAMBDA r : r.Feature = best_feature)[1])
        ELSE IF exon_features # <<>> THEN Labelled(exon_features[1])
        ELSE Labelled(overlapping_features[1])

\* v4 annotate_functional_region for one site: the first map row of the
\* position (drop_duplicates keeps the first), Intergenic without one.
annotate_v4(df, pos) ==
    LET rows == SelectSeq(df, LAMBDA r : r.Start = pos)
    IN  IF rows = <<>> THEN Intergenic ELSE Labelled(rows[1])

\* The annotation the script gives the position from a readable source.
Annotate(scr, lines, pos) ==
    IF scr = "v5" THEN annotate_v5(load_gtf_features(lines), pos)
    ELSE annotate_v4(read_gene_map(lines), pos)

InitAnnot ==
    /\ EarlyIdle
    /\ Phase3Idle
    /\ Phase4Idle
    /\ RetryIdle
    /\ annot_script \in {"v4", "v5"}
    /\ gtf_lines \in GtfSources
    /\ gtf_readable \in BOOLEAN
    /\ site_pos \in {2, 4}
    /\ gtf_df = <<>>
    /\ annotation = <<>>
    /\ annot_exit = <<>>
    /\ pcA = "load"

\* The annotation source is read. v5 lets a failure end the run with exit
\* code 1; v4 catches it and goes on to the fallback labels.
LoadAnnotationSource ==
    /\ pcA = "load"
    /\ IF gtf_readable
       THEN /\ gtf_df' = <<IF annot_script = "v5" THEN load_gtf_features(gtf_lines)
                           ELSE read_gene_map(gtf_lines)>>
            /\ pcA' = "annotate"
            /\ UNCHANGED annot_exit
       ELSE IF annot_script = "v5"
       THEN /\ annot_exit' = <<1>>
            /\ pcA' = "done"
            /\ UNCHANGED gtf_df
       ELSE /\ pcA' = "annotate"
            /\ UNCHANGED <<gtf_df, annot_exit>>
    /\ UNCHANGED <<annot_script, gtf_lines, gtf_readable, site_pos, annotation>>
    /\ UNCHANGED othersA

\* The site gets its Functional_Region and Gene.
AnnotateSite ==
    /\ pcA = "annotate"
    /\ annotation' = <<IF gtf_df = <<>> THEN Unknown
                       ELSE IF annot_script = "v5" THEN annotate_v5(gtf_df[1], site_pos)
                       ELSE annotate_v4(gtf_df[1], site_pos)>>
    /\ annot_exit' = <<0>>
    /\ pcA' = "done"
    /\ UNCHANGED <<annot_script, gtf_lines, gtf_readable, site_pos, gtf_df>>
    /\ UNCHANGED othersA

NextAnnot ==
    \/ LoadAnnotationSource
    \/ AnnotateSite

SpecAnnot == InitAnnot /\ [][NextAnnot]_vars

\* ---- Properties of the annotator ----

\* The region class of a listed feature type, in the words of the priority.
RegionOf(type) ==
    IF type = "CDS" THEN "CDS"
    ELSE IF type = "three_prime_utr" THEN "UTR3"
    ELSE IF type = "five_prime_utr" THEN "UTR5"
    ELSE IF type = "exon" THEN "Exon" ELSE type

\* The label a listed type is to show as: v4's map lists the labels themselves.
LabelOf(type) == IF annot_script = "v5" THEN RegionOf(type) ELSE type

\* The lines the annotator takes up that overlap the position.
OverlappingLines ==
    {l \in Range(gtf_lines) :
        /\ IF annot_script = "v5"
           THEN l.type \in {"CDS", "exon", "three_prime_utr", "five_prime_utr", "UTR"}
                /\ l.Start <= site_pos /\ site_pos <= l.End
           ELSE l.Start = site_pos}

\* The rank of a region class: the lower, the higher the priority.
PriorityRank(region) ==
    IF region = "CDS" THEN 1
    ELSE IF region \in {"UTR3", "UTR5"} THEN 2
    ELSE IF region = "Exon" THEN 3 ELSE 4

\* The orders in which the lines of the source can be listed.
Reorderings(lines) ==
    {[k \in 1..Len(lines) |-> lines[p[k]]] :
        p \in {q \in [1..Len(lines) -> 1..Len(lines)] :
                  \A a, b \in 1..Len(lines) : a # b => q[a] # q[b]}}

\* C27 (as claimed): the annotation of a site is Intergenic exactly when no
\* feature overlaps it; otherwise it is the region and gene of an
\* overlapping feature of the highest priority class present; and it is the
\* same for every order of the lines of the annotation source.
C27_AnnotatorPriority ==
    (pcA = "done" /\ annotation # <<>> /\ gtf_readable) =>
        /\ (annotation[1] = Intergenic) <=> (OverlappingLines = {})
        /\ OverlappingLines # {} =>
               \E l \in OverlappingLines :
                   /\ annotation[1] = [Functional_Region |-> LabelOf(l.type), Gene |-> l.Gene]
                   /\ \A m \in OverlappingLines :
                          PriorityRank(RegionOf(l.type)) <= PriorityRank(RegionOf(m.type))
        /\ \A lines \in Reorderings(gtf_lines) :
               Annotate(annot_script, lines, site_pos) = annotation[1]

\* The first two parts of C27, without the independence of the order.
C27_PriorityOnly ==
    (pcA = "done" /\ annotation # <<>> /\ gtf_readable) =>
        /\ (annotation[1] = Intergenic) <=> (OverlappingLines = {})
        /\ OverlappingLines # {} =>
               \E l \in OverlappingLines :
                   /\ annotation[1] = [Functional_Region |-> LabelOf(l.type), Gene |-> l.Gene]
                   /\ \A m \in OverlappingLines :
                          PriorityRank(RegionOf(l.type)) <= PriorityRank(RegionOf(m.type))

---------------------------------------------------------------------------
(* Phase 4: run_phase4_quantification of run_phase4_quantification_v3.py
   (global VCF and splice-junction QC, then the pileup of every PASS site)
   and of run_phase4_quantification.py (v1). One BAM file,
   scRNA_file_B.bam, is quantified; its cell type is B. *)

\* --splice_site_threshold, default 4.
splice_site_threshold == 4

\* --min_read_coverage, default 10.
min_read_coverage == 10

\* MinDistToSplice when the chromosome has no junction.
NoJunctionDist == 9999

Phase4Site(pos, ref, alt) ==
    [SiteID |-> "1:" \o ToString(pos) \o ":" \o ref \o ">" \o alt,
     Chr |-> "1", Pos |-> pos, Ref |-> ref, Alt |-> alt]

\* The site lists the quantifier may be handed.
Phase4SiteLists ==
    { <<>>,
      << Phase4Site(1000, "A", "G") >>,
      << Phase4Site(1000, "A", "G"), Phase4Site(2000, "T", "C") >> }

\* The germline VCFs: one pysam cannot open, or the positions at which the
\* individual carries the site's alternative allele.
GermlineVcfs ==
    {[readable |-> FALSE, snps |-> {}]}
    \cup {[readable |-> TRUE, snps |-> p] : p \in {{}, {1000}, {1000, 2000}}}

\* The GTFs: one that cannot be read, or the exon boundaries of chromosome 1.
GtfAnnotations ==
    {[readable |-> FALSE, junctions |-> {}]}
    \cup {[readable |-> TRUE, junctions |-> j] :
            j \in {{}, {1003}, {1500}, {1003, 2004}}}

\* What the BAM piles up at one site: n reads, alt of them the edited base,
\* or a failing query.
Pileups ==
    { [ok |-> FALSE, n |-> 0, alt |-> 0], [ok |-> TRUE, n |-> 5, alt |-> 1],
      [ok |-> TRUE, n |-> 10, alt |-> 5], [ok |-> TRUE, n |-> 20, alt |-> 10] }

Abs(x) == IF x < 0 THEN -x ELSE x

\* np.min(np.abs(junctions - pos))
MinDist(junctions, pos) ==
    CHOOSE d \in {Abs(j - pos) : j \in junctions} :
        \A j \in junctions : d <= Abs(j - pos)

StatusSJFiltered == "SJ_Filtered_<4bp"

\* check_germline_status: <<is_germline_snp, vcf_status>>.
check_germline_status(vcf, pos) ==
    IF ~vcf.readable THEN <<FALSE, "VCF_Error">>
    ELSE IF pos \in vcf.snps THEN <<TRUE, "GermlineSNP">>
    ELSE <<FALSE, "SomaticEdit">>

\* parse_gtf_and_get_annotation.
parse_gtf_and_get_annotation(gtf, pos) ==
    IF ~gtf.readable
    THEN [GlobalFilterStatus |-> "GTF_Error", MinDistToSplice |-> NoJunctionDist]
    ELSE IF gtf.junctions # {} /\ MinDist(gtf.junctions, pos) <= splice_site_threshold
    THEN [GlobalFilterStatus |-> StatusSJFiltered,
          MinDistToSplice |-> MinDist(gtf.junctions, pos)]
    ELSE [GlobalFilterStatus |-> "PASS",
          MinDistToSplice |-> IF gtf.junctions = {} THEN NoJunctionDist
                              ELSE MinDist(gtf.junctions, pos)]

\* The final global status of a site.
GlobalStatus(germline, gtf_annot) ==
    IF germline[1] THEN germline[2]
    ELSE IF StartsWith(gtf_annot.GlobalFilterStatus, "SJ_Filtered")
    THEN gtf_annot.GlobalFilterStatus
    ELSE "PASS"

\* quantify_site_per_bam: the metrics and the QC status.
quantify_site_per_bam(pile) ==
    IF ~pile.ok
    THEN [TotalReads |-> 0, EditingRatio |-> NaNFraction, status |-> "BAM_Error"]
    ELSE IF pile.n < min_read_coverage
    THEN [TotalReads |-> pile.n, EditingRatio |-> NaNFraction, status |-> "LowCoverage"]
    ELSE [TotalReads |-> pile.n, EditingRatio |-> <<pile.alt, pile.n>>, status |-> "PASS"]

MsgVcfWarning == "Warning: Failed VCF query"
MsgGtfCritical == "CRITICAL: Failed to load GTF for SJ filtering"
MsgBamError == "Error querying BAM"
MsgNoSiteIDColumn == "FATAL UNCAUGHT ERROR in Phase 4 Quantification: SiteID"

Init4 ==
    /\ EarlyIdle
    /\ Phase3Idle
    /\ AnnotIdle
    /\ RetryIdle
    /\ p4_script \in {"v1", "v3"}
    /\ phase3_df \in Phase4SiteLists
    /\ germline_vcf \in GermlineVcfs
    /\ gtf_annotation \in GtfAnnotations
    /\ pileups \in [{phase3_df[k].SiteID : k \in 1..Len(phase3_df)} -> Pileups]
    /\ site_annotation = <<>>
    /\ p4_k = 1
    /\ matrix_rows = <<>>
    /\ p4_output = <<>>
    /\ p4_stderr = <<>>
    /\ p4_exit = <<>>
    /\ pc4 = "load"

\* The sites are read. v3 with no site writes an empty file and returns;
\* v1 has no global QC loop and goes straight to the quantification.
LoadSites ==
    /\ pc4 = "load"
    /\ IF p4_script = "v3" /\ phase3_df = <<>>
       THEN /\ p4_output' = << <<>> >>
            /\ p4_exit' = <<0>>
            /\ pc4' = "done"
       ELSE /\ pc4' = IF p4_script = "v3" THEN "qc" ELSE "quantify"
            /\ UNCHANGED <<p4_output, p4_exit>>
    /\ UNCHANGED <<p4_script, phase3_df, germline_vcf, gtf_annotation, pileups,
                   site_annotation, p4_k, matrix_rows, p4_stderr>>
    /\ UNCHANGED others4

\* One pass of v3's global QC loop.
GlobalQC ==
    /\ pc4 = "qc"
    /\ p4_k <= Len(phase3_df)
    /\ LET site == phase3_df[p4_k]
           germline == check_germline_status(germline_vcf, site.Pos)
           gtf_annot == parse_gtf_and_get_annotation(gtf_annotation, site.Pos)
       IN  /\ site_annotation' =
                  (site.SiteID :> [GlobalFilterStatus |-> GlobalStatus(germline, gtf_annot),
                                   VCF_Status |-> germline[2],
                                   MinDistToSplice |-> gtf_annot.MinDistToSplice])
                  @@ site_annotation
           /\ p4_stderr' = p4_stderr
                  \o (IF germline[2] = "VCF_Error" THEN <<MsgVcfWarning>> ELSE <<>>)
                  \o (IF gtf_annot.GlobalFilterStatus = "GTF_Error"
                      THEN <<MsgGtfCritical>> ELSE <<>>)
    /\ IF p4_k = Len(phase3_df)
       THEN pc4' = "quantify" /\ p4_k' = 1
       ELSE pc4' = pc4 /\ p4_k' = p4_k + 1
    /\ UNCHANGED <<p4_script, phase3_df, germline_vcf, gtf_annotation, pileups,
                   matrix_rows, p4_output, p4_exit>>
    /\ UNCHANGED others4

\* One pass of the quantification loop: a site without a PASS annotation is
\* skipped, a PASS site is piled up and its row appended.
QuantifySite ==
    /\ pc4 = "quantify"
    /\ p4_k <= Len(phase3_df)
    /\ LET site == phase3_df[p4_k]
           skipped == \/ site.SiteID \notin DOMAIN site_annotation
                      \/ site_annotation[site.SiteID].GlobalFilterStatus # "PASS"
           q == quantify_site_per_bam(pileups[site.SiteID])
       IN  IF skipped
           THEN UNCHANGED <<matrix_rows, p4_stderr>>
           ELSE /\ matrix_rows' = Append(matrix_rows,
                       IF p4_script = "v3"
                       THEN [SiteID |-> site.SiteID,
                             GlobalFilterStatus |-> site_annotation[site.SiteID].GlobalFilterStatus,
                             VCF_Status |-> site_annotation[site.SiteID].VCF_Status,
                             MinDistToSplice |-> site_annotation[site.SiteID].MinDistToSplice,
                             B_ER |-> q.EditingRatio, B_TR |-> q.TotalReads,
                             B_QC |-> q.status]
                       ELSE [SiteID |-> site.SiteID,
                             GlobalFilterStatus |-> site_annotation[site.SiteID].GlobalFilterStatus,
                             scRNA_file_B_ER |-> q.EditingRatio,
                             scRNA_file_B_TR |-> q.TotalReads])
                /\ p4_stderr' = IF q.status = "BAM_Error"
                                THEN Append(p4_stderr, MsgBamError) ELSE p4_stderr
    /\ p4_k' = p4_k + 1
    /\ UNCHANGED <<p4_script, phase3_df, germline_vcf, gtf_annotation, pileups,
                   site_annotation, p4_output, p4_exit, pc4>>
    /\ UNCHANGED others4

\* The matrix is written. v3 sets SiteID as the index first, a KeyError on
\* the frame of no rows.
WriteMatrix ==
    /\ pc4 = "quantify"
    /\ p4_k > Len(phase3_df)
    /\ IF p4_script = "v3" /\ matrix_rows = <<>>
       THEN /\ p4_stderr' = Append(p4_stderr, MsgNoSiteIDColumn)
            /\ p4_exit' = <<1>>
            /\ UNCHANGED p4_output
       ELSE /\ p4_output' = <<matrix_rows>>
            /\ p4_exit' = <<0>>
            /\ UNCHANGED p4_stderr
    /\ pc4' = "done"
    /\ UNCHANGED <<p4_script, phase3_df, germline_vcf, gtf_annotation, pileups,
                   site_annotation, p4_k, matrix_rows>>
    /\ UNCHANGED others4

Next4 ==
    \/ LoadSites
    \/ GlobalQC
    \/ QuantifySite
    \/ WriteMatrix

Spec4 == Init4 /\ [][Next4]_vars

\* ---- Properties of Phase 4 ----

OutputRows == IF p4_output = <<>> THEN {} ELSE Range(p4_output[1])

\* The site overlaps a germline variant of the individual.
GermlineOverlapping(site) ==
    germline_vcf.readable /\ site.Pos \in germline_vcf.snps

\* The site lies within the threshold of a splice junction.
SpliceProximal(site) ==
    /\ gtf_annotation.readable
    /\ \E j \in gtf_annotation.junctions :
           j - site.Pos <= 4 /\ site.Pos - j <= 4

\* The BAM holds fewer reads at the site than the minimum coverage.
LowCoverage(site) ==
    pileups[site.SiteID].ok /\ pileups[site.SiteID].n < 10

\* C26 (as claimed): once the quantifier has ended, every site it was
\* handed that is germline-overlapping or splice-proximal is in the output
\* with a GlobalFilterStatus other than PASS, and every other site of low
\* coverage is in the output with an undefined EditingRatio and the QC status
\* LowCoverage.
C26_MaskedSitesRecorded ==
    pc4 = "done" =>
        \A k \in 1..Len(phase3_df) :
            LET site == phase3_df[k]
            IN  /\ (GermlineOverlapping(site) \/ SpliceProximal(site)) =>
                       \E r \in OutputRows :
                           r.SiteID = site.SiteID /\ r.GlobalFilterStatus # "PASS"
                /\ (~GermlineOverlapping(site) /\ ~SpliceProximal(site)
                        /\ LowCoverage(site)) =>
                       \E r \in OutputRows :
                           /\ r.SiteID = site.SiteID
                           /\ IsNaN(r.B_ER)
                           /\ r.B_QC = "LowCoverage"

\* C29 (as claimed): a site whose GlobalFilterStatus is PASS, and every
\* site that is quantified, had its VCF query and its GTF load complete
\* without error, and neither check excluded it.
C29_PassOnlyAfterBothChecks ==
    /\ \A k \in 1..Len(phase3_df) :
           (/\ phase3_df[k].SiteID \in DOMAIN site_annotation
            /\ site_annotation[phase3_df[k].SiteID].GlobalFilterStatus = "PASS") =>
               /\ germline_vcf.readable
               /\ gtf_annotation.readable
               /\ ~GermlineOverlapping(phase3_df[k])
               /\ ~SpliceProximal(phase3_df[k])
    /\ \A j \in 1..Len(matrix_rows) :
           germline_vcf.readable /\ gtf_annotation.readable

---------------------------------------------------------------------------
(* Kill and resubmit. A stage ends by writing its output files, each with
   one open(path, 'w') or to_csv(path): run_individual_processing of
   Phase 3 (two comment lines, then the matrix), Phase 5 (the matrix),
   process_fastqtl_results of Phase 8 (the full table, then the significant
   rows). A run can be killed at any point and is then started again on the
   same inputs; what a killed run wrote stays on disk. *)

\* How many times a run is killed before one is left to complete.
MaxAborts == 2

\* The rows a stage computes from its inputs.
RetryTables == { <<>>, <<"row1">>, <<"row1", "row2">> }

OutputFileNames == {"output_file", "full_output_file"}

\* What an earlier run may have left in the place of an output file.
Leftovers == { <<>>, <<"stale">> }

\* The rows of the significant subset.
SignificantRows(table) == SelectSeq(table, LAMBDA r : r = "row1")

\* The files a stage writes, in order, each with its lines.
OutputPlan(stage, table) ==
    IF stage = "phase3"
    THEN << [file |-> "output_file",
             lines |-> <<"# Processed Individual", "# --- SITE-LEVEL QUANTIFICATION",
                         "header">> \o table] >>
    ELSE IF stage = "phase5"
    THEN << [file |-> "output_file", lines |-> <<"header">> \o table] >>
    ELSE << [file |-> "full_output_file", lines |-> <<"header">> \o table],
            [file |-> "output_file", lines |-> <<"header">> \o SignificantRows(table)] >>

\* Opening a file for writing: mode 'w' discards what the file held.
OpenForWriting_Append(content) == content

OpenForWriting(content) == <<>>

InitRetry ==
    /\ EarlyIdle
    /\ Phase3Idle
    /\ AnnotIdle
    /\ Phase4Idle
    /\ rt_stage \in {"phase3", "phase5", "phase8"}
    /\ rt_table \in RetryTables
    /\ rt_files \in [OutputFileNames -> Leftovers]
    /\ rt_step = 1
    /\ rt_pos = 1
    /\ rt_aborts = 0
    /\ rt_partial = FALSE
    /\ pcR = "open"

\* The next output file is opened.
OpenOutput ==
    /\ pcR = "open"
    /\ LET out == OutputPlan(rt_stage, rt_table)[rt_step]
       IN  rt_files' = [rt_files EXCEPT ![out.file] = OpenForWriting(@)]
    /\ rt_pos' = 1
    /\ pcR' = "write"
    /\ UNCHANGED <<rt_stage, rt_table, rt_step, rt_aborts, rt_partial>>
    /\ UNCHANGED othersR

\* One more line reaches the open file.
WriteLine ==
    /\ pcR = "write"
    /\ LET out == OutputPlan(rt_stage, rt_table)[rt_step]
       IN  /\ rt_pos <= Len(out.lines)
           /\ rt_files' = [rt_files EXCEPT ![out.file] = Append(@, out.lines[rt_pos])]
    /\ rt_pos' = rt_pos + 1
    /\ UNCHANGED <<rt_stage, rt_table, rt_step, rt_aborts, rt_partial, pcR>>
    /\ UNCHANGED othersR

\* The file is complete: the stage goes on to its next file, or ends.
CloseOutput ==
    /\ pcR = "write"
    /\ rt_pos > Len(OutputPlan(rt_stage, rt_table)[rt_step].lines)
    /\ IF rt_step = Len(OutputPlan(rt_stage, rt_table))
       THEN pcR' = "done" /\ UNCHANGED rt_step
       ELSE pcR' = "open" /\ rt_step' = rt_step + 1
    /\ UNCHANGED <<rt_stage, rt_table, rt_files, rt_pos, rt_aborts, rt_partial>>
    /\ UNCHANGED othersR

\* The run is killed and a new run is submitted on the same inputs.
KillAndResubmit ==
    /\ pcR \in {"open", "write"}
    /\ rt_aborts < MaxAborts
    /\ rt_aborts' = rt_aborts + 1
    /\ rt_partial' = (rt_partial \/ (pcR = "write" /\ rt_pos > 1))
    /\ rt_step' = 1
    /\ rt_pos' = 1
    /\ pcR' = "open"
    /\ UNCHANGED <<rt_stage, rt_table, rt_files>>
    /\ UNCHANGED othersR

NextRetry ==
    \/ OpenOutput
    \/ WriteLine
    \/ CloseOutput
    \/ KillAndResubmit

SpecRetry == InitRetry /\ [][NextRetry]_vars

\* C28: once a run has completed, after however many killed runs, every
\* output file of the stage holds exactly the lines of a single clean run
\* on the same inputs, with nothing of what was on disk before.
C28_OverwrittenWholesale ==
    pcR = "done" =>
        \A k \in 1..Len(OutputPlan(rt_stage, rt_table)) :
            rt_files[OutputPlan(rt_stage, rt_table)[k].file]
                = OutputPlan(rt_stage, rt_table)[k].lines

\* A completed run that follows a killed run which left a partly written
\* file, over older content.
C28_Witness ==
    /\ pcR = "done"
    /\ rt_aborts > 0
    /\ rt_partial

====
